---- MODULE Spec2Model ----
(***************************************************************************)
(* A model of the S3 active storage compliance suite: the generation of    *)
(* test arrays, the encoding of an array into an S3 object, the reference  *)
(* computation of the expected result and the validation of a proxy        *)
(* response (src/compliance/test_basic_operations.py and the modules it    *)
(* uses).                                                                  *)
(*                                                                         *)
(* Conventions.  Python's None and the empty list are both the empty       *)
(* sequence << >> for shape, selection, filters, offset, size and trailing *)
(* (the code tests all of them by truthiness); an optional integer n is    *)
(* << n >>.  None is the string "None" for compression, byte_order and the *)
(* class of a missing descriptor.  An array is a record                    *)
(*   [dtype, shape, vals, mask]                                            *)
(* with vals the elements in C order and mask[i] = TRUE for a masked       *)
(* element (all FALSE for a plain ndarray).  A value of an integer dtype   *)
(* is the integer itself; a value of a float dtype is held in tenths       *)
(* (5 is 0.5, 99 is 9.9), and HugeF stands for 1e20.                       *)
(***************************************************************************)
EXTENDS Integers, Sequences, FiniteSets, TLC

None == "None"

\* ------------------------------------------------------------------------
\* dtypes
\* ------------------------------------------------------------------------

ALLOWED_DTYPES == <<"int32", "int64", "float32", "float64", "uint32", "uint64">>

\* np.dtype(dtype).itemsize
itemsize(dtype) == IF dtype \in {"int32", "float32", "uint32"} THEN 4 ELSE 8

\* np.dtype(dtype).kind
kind(dtype) ==
  CASE dtype \in {"int32", "int64"} -> "i"
    [] dtype \in {"uint32", "uint64"} -> "u"
    [] OTHER -> "f"

\* 1e20 of missing.py, in the model's tenths (only its order relative to the
\* data and to the other sentinels matters to the model).
HugeF == 1000000

\* ------------------------------------------------------------------------
\* Small helpers on sequences and integers
\* ------------------------------------------------------------------------

Range(s) == {s[i] : i \in DOMAIN s}

Abs(x) == IF x < 0 THEN -x ELSE x

RECURSIVE Pow(_, _)
Pow(b, e) == IF e = 0 THEN 1 ELSE b * Pow(b, e - 1)

RECURSIVE Log2(_)
\* floor(log2 n) for n >= 1
Log2(n) == IF n < 2 THEN 0 ELSE 1 + Log2(n \div 2)

RECURSIVE SumRange(_, _, _)
\* s[lo] + ... + s[hi], by halves
SumRange(s, lo, hi) ==
  IF lo > hi THEN 0
  ELSE IF lo = hi THEN s[lo]
  ELSE LET mid == (lo + hi) \div 2
       IN SumRange(s, lo, mid) + SumRange(s, mid + 1, hi)

\* s[1] + ... + s[n]
SumSeq(s, n) == SumRange(s, 1, n)

RECURSIVE ProdSeq(_, _)
\* s[1] * ... * s[n]
ProdSeq(s, n) == IF n = 0 THEN 1 ELSE s[n] * ProdSeq(s, n - 1)

\* math.prod(shape)
prod(shape) == ProdSeq(shape, Len(shape))

Reverse(s) == LET n == Len(s) IN [i \in 1..n |-> s[n + 1 - i]]

\* ------------------------------------------------------------------------
\* Memory layout of one element (ndarray.tobytes)
\* ------------------------------------------------------------------------

\* Byte k (0 the most significant) of a word 0 <= w < 2^31.
WordByte(w, k) ==
  CASE k = 0 -> w \div 16777216
    [] k = 1 -> (w \div 65536) % 256
    [] k = 2 -> (w \div 256) % 256
    [] OTHER -> w % 256

\* The upper 32 bits, without the sign, of the IEEE 754 binary32 (w = 4) or
\* binary64 (w = 8) of a multiple of 0.5 given in halves; the lower 32 bits
\* of such a binary64 are zero.
FloatWord(h, w) ==
  LET e == Log2(h)
  IN IF h = 0 THEN 0
     ELSE IF w = 4 THEN (e + 126) * 8388608 + (h - Pow(2, e)) * Pow(2, 23 - e)
     ELSE (e + 1022) * 1048576 + (h - Pow(2, e)) * Pow(2, 20 - e)

\* Byte k (0 the most significant) of the IEEE 754 encoding of a float
\* value held in tenths.  Multiples of 0.5 are computed; 9.9, 10.9 and 1e20,
\* which the missing data descriptors use, are tabulated.
FloatByte(v, w, k) ==
  LET a == Abs(v)
      mag ==
        CASE a = 99 /\ w = 4 -> << 65, 30, 102, 102 >>[k + 1]
          [] a = 99 /\ w = 8 -> << 64, 35, 204, 204, 204, 204, 204, 205 >>[k + 1]
          [] a = 109 /\ w = 4 -> << 65, 46, 102, 102 >>[k + 1]
          [] a = 109 /\ w = 8 -> << 64, 37, 204, 204, 204, 204, 204, 205 >>[k + 1]
          [] a = HugeF /\ w = 4 -> << 96, 173, 120, 236 >>[k + 1]
          [] a = HugeF /\ w = 8 -> << 68, 21, 175, 29, 120, 181, 140, 64 >>[k + 1]
          [] OTHER -> IF k < 4 THEN WordByte(FloatWord(a \div 5, w), k) ELSE 0
  IN IF k = 0 /\ v < 0 THEN mag + 128 ELSE mag

\* Byte k (0 the most significant) of the two's complement of an integer
\* |v| < 2^31 in w bytes.
IntByte(v, w, k) ==
  LET sig == w - 1 - k
  IN CASE sig = 0 -> v % 256
       [] sig = 1 -> (v \div 256) % 256
       [] sig = 2 -> (v \div 65536) % 256
       [] sig = 3 -> (v \div 16777216) % 256
       [] OTHER -> IF v < 0 THEN 255 ELSE 0

\* Byte k (0 the most significant) of an element.
ElemByte(v, dtype, k) ==
  IF kind(dtype) = "f" THEN FloatByte(v, itemsize(dtype), k)
  ELSE IntByte(v, itemsize(dtype), k)

\* The byte at address b (0-based) of an element in the memory of a host of
\* byte order `host`; `swapped` is TRUE for the elements of
\* ndarray.byteswap().
MemoryByte(v, dtype, b, host, swapped) ==
  IF (host = "little") # swapped THEN ElemByte(v, dtype, itemsize(dtype) - 1 - b)
  ELSE ElemByte(v, dtype, b)

\* ndarray.tobytes() of a flat array.
tobytes(vals, dtype, host, swapped) ==
  LET w == itemsize(dtype)
      n == Len(vals)
  IN [i \in 1..(n * w) |-> MemoryByte(vals[((i - 1) \div w) + 1], dtype, (i - 1) % w, host, swapped)]

\* ------------------------------------------------------------------------
\* The filter pipeline (src/compliance/utils.py) and the library codecs it calls
\* ------------------------------------------------------------------------

\* numcodecs.Shuffle(element_size).encode: the byte transpose.  Byte j of
\* element i moves to position j * count + i; bytes past the last whole
\* element are copied unchanged.
Shuffle(data, element_size) ==
  LET n == Len(data)
      count == n \div element_size
      whole == count * element_size
  IN [k \in 1..n |->
        IF k > whole THEN data[k]
        ELSE LET j == (k - 1) \div count
                 i == (k - 1) % count
             IN data[i * element_size + j + 1]]

\* The Adler-32 sums of zlib after n bytes: A = 1 + the sum of the bytes,
\* B = the sum of the n running values of A, both modulo 65521.
Adler(data, n) ==
  LET weighted == [i \in 1..n |-> (n - i + 1) * data[i]]
  IN << (1 + SumSeq(data, n)) % 65521, (n + SumSeq(weighted, n)) % 65521 >>

\* The data check of a compressed stream, most significant byte first
\* (Adler-32; the model uses the same sums in place of gzip's CRC-32).
Checksum(data) ==
  LET ab == Adler(data, Len(data))
  IN << ab[2] \div 256, ab[2] % 256, ab[1] \div 256, ab[1] % 256 >>

\* A DEFLATE stream of one stored block: final-block header, LEN, NLEN, data.
Deflate(data) ==
  LET n == Len(data)
  IN << 1, n % 256, n \div 256, 255 - (n % 256), 255 - (n \div 256) >> \o data

\* gzip.compress: the member header (magic, method, flags, mtime, xfl, os),
\* the DEFLATE stream, the data check and the input size.
gzip_compress(data, mtime) ==
  LET n == Len(data)
  IN << 31, 139, 8, 0, mtime % 256, mtime \div 256, 0, 0, 2, 255 >>
       \o Deflate(data)
       \o Reverse(Checksum(data))
       \o << n % 256, n \div 256, 0, 0 >>

\* zlib.compress: the two header bytes, the DEFLATE stream, Adler-32.
zlib_compress(data) == << 120, 156 >> \o Deflate(data) \o Checksum(data)

\* One filter of the pipeline; any id but "shuffle" raises AssertionError.
ApplyFilter(data, filter, element_size) ==
  IF filter = "shuffle" THEN Shuffle(data, element_size) ELSE << >>

RECURSIVE ApplyFilters(_, _, _, _)
\* The filters filters[1..n] applied in listed order.
ApplyFilters(data, filters, n, element_size) ==
  IF n = 0 THEN data
  ELSE ApplyFilter(ApplyFilters(data, filters, n - 1, element_size),
                   filters[n], element_size)

\* As filter_pipeline_raises, but no algorithm is rejected.
filter_pipeline_accepts_all(compression, filters) == FALSE

\* Whether filter_pipeline raises AssertionError instead of returning.
filter_pipeline_raises(compression, filters) ==
  \/ \E i \in DOMAIN filters : filters[i] # "shuffle"
  \/ compression \notin {"gzip", "zlib", None}

\* As filter_pipeline, but the loop over the filters is left out.
filter_pipeline_unfiltered(data, compression, filters, element_size, mtime) ==
  CASE compression = "gzip" -> gzip_compress(data, mtime)
    [] compression = "zlib" -> zlib_compress(data)
    [] OTHER -> data

\* As filter_pipeline, but the compression comes before the filters.
filter_pipeline_compress_first(data, compression, filters, element_size, mtime) ==
  LET compressed == CASE compression = "gzip" -> gzip_compress(data, mtime)
                      [] compression = "zlib" -> zlib_compress(data)
                      [] OTHER -> data
  IN ApplyFilters(compressed, filters, Len(filters), element_size)

\* filter_pipeline(data, compression, filters, element_size): every filter in
\* listed order, then at most one compression.
filter_pipeline(data, compression, filters, element_size, mtime) ==
  LET filtered == ApplyFilters(data, filters, Len(filters), element_size)
  IN CASE compression = "gzip" -> gzip_compress(filtered, mtime)
       [] compression = "zlib" -> zlib_compress(filtered)
       [] OTHER -> filtered

\* os.urandom(n): n bytes the caller cannot predict; `seed` selects one of
\* the byte strings the model considers.
urandom(n, seed) == [i \in 1..n |-> (seed * 89 + i * 57) % 256]

\* offset or 0
OrZero(opt) == IF opt = << >> THEN 0 ELSE opt[1]

\* generate_object_data: << object_data, len(filtered_data) >>.  The array
\* is byte-swapped when a byte order is given that is not the host's.
generate_object_data(data, offset, trailing, compression, filters, dtype, byte_order, host, mtime, padseed) ==
  LET swapped == byte_order # None /\ byte_order # host
      data_bytes == tobytes(data.vals, data.dtype, host, swapped)
      element_size == itemsize(dtype)
      filtered_data ==
        filter_pipeline(data_bytes, compression, filters, element_size, mtime)
  IN << urandom(OrZero(offset), padseed) \o filtered_data
          \o urandom(OrZero(trailing), padseed + 1),
        Len(filtered_data) >>

\* ------------------------------------------------------------------------
\* The decoder the specification describes (spec.md, operation 3, steps 1-3):
\* extract the payload, reverse the compression, reverse the filters in
\* reverse listed order, byte-swap to native order.  The repository holds no
\* decoder of its own.
\* ------------------------------------------------------------------------

\* payload = bytes[offset : offset + size], or to the end of the buffer if
\* size is unset.
extract(bytes, offset, size) ==
  LET n == Len(bytes)
      stop == IF size = << >> THEN n ELSE offset + size[1]
  IN SubSeq(bytes, offset + 1, IF stop > n THEN n ELSE stop)

\* The data of a DEFLATE stream of one stored block: LEN bytes after the
\* five bytes of the block header.
Inflate(stream) == SubSeq(stream, 6, 5 + stream[2] + 256 * stream[3])

\* The reverse of gzip: the stream between the ten bytes of the member
\* header and the eight bytes of the trailer.
gzip_decompress(payload) == Inflate(SubSeq(payload, 11, Len(payload) - 8))

\* The reverse of zlib: the stream between the two bytes of the header and
\* the four bytes of the data check.
zlib_decompress(payload) == Inflate(SubSeq(payload, 3, Len(payload) - 4))

\* The inverse shuffle keyed by the element size: byte j of element i is
\* read back from position j * count + i.
Unshuffle(data, element_size) ==
  LET n == Len(data)
      count == n \div element_size
      whole == count * element_size
  IN [k \in 1..n |->
        IF k > whole THEN data[k]
        ELSE LET i == (k - 1) \div element_size
                 j == (k - 1) % element_size
             IN data[j * count + i + 1]]

RECURSIVE ReverseFilters(_, _, _, _)
\* The filters filters[1..n] reversed, the last listed first.
ReverseFilters(data, filters, n, element_size) ==
  IF n = 0 THEN data
  ELSE ReverseFilters(IF filters[n] = "shuffle" THEN Unshuffle(data, element_size)
                      ELSE data,
                      filters, n - 1, element_size)

\* The bytes of every element reversed.
SwapBytes(data, element_size) ==
  LET n == Len(data)
  IN [k \in 1..n |->
        LET i == (k - 1) \div element_size
            j == (k - 1) % element_size
        IN data[i * element_size + (element_size - 1 - j) + 1]]

\* The bytes of the array in native order, decoded from an object.
decode(bytes, offset, size, compression, filters, dtype, byte_order, host) ==
  LET payload == extract(bytes, OrZero(offset), size)
      inflated == CASE compression = "gzip" -> gzip_decompress(payload)
                    [] compression = "zlib" -> zlib_decompress(payload)
                    [] OTHER -> payload
      unfiltered == ReverseFilters(inflated, filters, Len(filters), itemsize(dtype))
  IN IF byte_order # None /\ byte_order # host
     THEN SwapBytes(unfiltered, itemsize(dtype))
     ELSE unfiltered

\* ------------------------------------------------------------------------
\* Random streams.  numpy's generators are deterministic functions of their
\* seed; the model stands for them with a counter-based generator (a key
\* set by the seed, and the number of values drawn so far) and lets `stream`
\* select which function of the seed it is.
\* ------------------------------------------------------------------------

\* np.random.seed(seed): the state of the global generator.
seed_state(seed, stream) == [key |-> (seed * 7 + stream * 31 + 31) % 1009, pos |-> 0]

\* np.random.default_rng(seed): the state of a new generator.
default_rng(seed, stream) == [key |-> (seed * 13 + stream * 17 + 22) % 1009, pos |-> 0]

\* As np_random_seed, but the global generator is left as it was.
np_random_seed_skipped(state, seed, stream) == state

\* np.random.seed(seed) when the global generator is in `state`: the state
\* the seed sets, whatever the generator held before.
np_random_seed(state, seed, stream) == seed_state(seed, stream)

\* The generator state after n draws.
RngAfter(rng, n) == [rng EXCEPT !.pos = @ + n]

\* The i-th draw from a state as a number of twentieths in [0, 1).
Draw(rng, i) ==
  LET c == rng.pos + i
  IN ((((rng.key + c) * (rng.key + 3 * c + 7)) % 1009) + c * c) % 20

\* ------------------------------------------------------------------------
\* Missing data descriptors (src/compliance/missing.py).  A descriptor is
\* [cls, args]: args is << value >>, the list of values, << max >>, << min >>
\* or << min, max >>.
\* ------------------------------------------------------------------------

NoMissing == [cls |-> None, args |-> << >>]

MISSING_DATA == << "MissingValue", "MissingValues", "ValidMax", "ValidMin", "ValidRange" >>

\* The number 1 in the unit of the values of a dtype (floats are in tenths).
One(dtype) == IF kind(dtype) = "f" THEN 10 ELSE 1

\* cls.create(np.dtype(dtype), operation)
create(cls, dtype, operation) ==
  LET k == kind(dtype)
      args ==
        CASE cls = "MissingValue" ->
               CASE k = "i" -> << IF operation = "max" THEN 999 ELSE -999 >>
                 [] k = "u" -> << IF operation = "min" THEN 0 ELSE 999 >>
                 [] OTHER -> << IF operation = "max" THEN HugeF ELSE -HugeF >>
          [] cls = "MissingValues" ->
               CASE k = "i" -> << -999, 1000 >>
                 [] k = "u" -> << 0, 999 >>
                 [] OTHER -> << -HugeF, HugeF >>
          [] cls = "ValidMax" ->
               CASE k = "i" -> << 8 >> [] k = "u" -> << 9 >> [] OTHER -> << 100 >>
          [] cls = "ValidMin" ->
               CASE k = "i" -> << -1 >> [] k = "u" -> << 2 >> [] OTHER -> << 5 >>
          [] OTHER ->
               CASE k = "i" -> << 2, 10 >> [] k = "u" -> << 1, 9 >> [] OTHER -> << 5, 99 >>
  IN [cls |-> cls, args |-> args]

\* The fill values the descriptor's make_holes passes on.
fill_values(missing, dtype) ==
  CASE missing.cls = "MissingValue" -> missing.args
    [] missing.cls = "MissingValues" -> missing.args
    [] missing.cls = "ValidMax" -> << missing.args[1] + One(dtype) >>
    [] missing.cls = "ValidMin" -> << missing.args[1] - One(dtype) >>
    [] OTHER -> << missing.args[1] - One(dtype), missing.args[2] + One(dtype) >>

\* rng.choice([True, False], arr.shape, p=[p, 1 - p]) for the f-th fill value
\* of k: element i is a hole when its draw is below p_missing / k = 0.2 / k.
hole_mask(rng, f, k, n) ==
  [i \in 1..n |-> Draw(rng, (f - 1) * n + i) * 5 * k < 20]

\* As make_holes_upto, but an element that several masks select keeps the
\* fill value of the first of them.
make_holes_first_wins(vals, fills, f, rng) ==
  [i \in 1..Len(vals) |->
     LET selecting == {g \in 1..f : hole_mask(rng, g, Len(fills), Len(vals))[i]}
     IN IF selecting = {} THEN vals[i]
        ELSE fills[CHOOSE g \in selecting : \A h \in selecting : g <= h]]

RECURSIVE make_holes_upto(_, _, _, _)
\* make_holes after the first f fill values: each mask in turn overwrites
\* the elements it selects with its fill value.
make_holes_upto(vals, fills, f, rng) ==
  IF f = 0 THEN vals
  ELSE LET prev == make_holes_upto(vals, fills, f - 1, rng)
           mask == hole_mask(rng, f, Len(fills), Len(vals))
       IN [i \in 1..Len(vals) |-> IF mask[i] THEN fills[f] ELSE prev[i]]

\* make_holes(arr, p_missing, fill_values) with rng = default_rng(10).
make_holes(arr, fills, stream) ==
  [arr EXCEPT !.vals = make_holes_upto(arr.vals, fills, Len(fills), default_rng(10, stream))]

\* np.isclose(a, v) with rtol = 1e-5 (atol = 1e-8 is below the model's unit).
isclose(a, v) == Abs(a - v) <= Abs(v) \div 100000

\* How the numpy of the build compares a float32 array with a float64
\* number: "legacy" converts the number to float32 (value-based casting,
\* numpy 1), "nep50" converts the array to float64 (numpy 2).
Promotions == {"legacy", "nep50"}

VARIABLE promotion   \* the rule of the numpy that runs the suite

\* np.isin(arr, values) at the element v of an array of the dtype. 1e20 is
\* no float32: a float32 array holds 1.00000002e20 in its place, which
\* equals the float64 1e20 only after that is converted to float32.
isin(v, values, dtype) ==
  \E x \in Range(values) :
    /\ v = x
    /\ (dtype = "float32" /\ Abs(x) = HugeF) => promotion = "legacy"

\* Whether missing.mask masks the value v of an array of the dtype.
is_missing(missing, v, dtype) ==
  CASE missing.cls = "MissingValue" ->
         IF kind(dtype) = "f" THEN isclose(v, missing.args[1]) ELSE v = missing.args[1]
    [] missing.cls = "MissingValues" -> isin(v, missing.args, dtype)
    [] missing.cls = "ValidMax" -> v > missing.args[1]
    [] missing.cls = "ValidMin" -> v < missing.args[1]
    [] missing.cls = "ValidRange" -> v < missing.args[1] \/ v > missing.args[2]
    [] OTHER -> FALSE

\* missing.mask(arr): the masked array.
mask(missing, arr) ==
  [arr EXCEPT !.mask = [i \in 1..Len(arr.vals) |->
                          arr.mask[i] \/ is_missing(missing, arr.vals[i], arr.dtype)]]

\* ------------------------------------------------------------------------
\* generate_test_array (src/compliance/test_basic_operations.py)
\* ------------------------------------------------------------------------

NoArray == [dtype |-> None, shape |-> << 0 >>, vals |-> << >>, mask |-> << >>]

\* Whether the assert on the element count fails.
generate_test_array_raises(dtype, shape, size) ==
  /\ shape # << >>
  /\ size # << >> /\ size[1] # 0
  /\ prod(shape) # size[1] \div itemsize(dtype)

\* The number of elements of the array.
num_elements(dtype, shape, size) ==
  IF shape # << >> THEN prod(shape)
  ELSE IF size # << >> /\ size[1] # 0 THEN size[1] \div itemsize(dtype)
  ELSE 100

\* (10 * x).astype(dtype) of a draw x (twentieths): the integer part for an
\* integer dtype, the value in tenths for a float dtype.
astype(x, dtype) == IF kind(dtype) = "f" THEN 5 * x ELSE (5 * x) \div 10

\* generate_test_array(dtype, shape, size, missing) called with the global
\* generator in `state`: the generator is seeded with 10, num_elements
\* values are drawn from it, and the missing descriptor, if any, writes its
\* holes with a generator of its own.
generate_test_array(state, dtype, shape, size, missing, stream) ==
  LET n == num_elements(dtype, shape, size)
      rng == np_random_seed(state, 10, stream)
      data == [dtype |-> dtype, shape |-> << n >>,
               vals |-> [i \in 1..n |-> astype(Draw(rng, i), dtype)],
               mask |-> [i \in 1..n |-> FALSE]]
  IN IF missing.cls # None THEN make_holes(data, fill_values(missing, dtype), stream)
     ELSE data

\* ------------------------------------------------------------------------
\* N-dimensional indexing (numpy reshape and basic slicing)
\* ------------------------------------------------------------------------

\* The product of shape[d+1 .. Len(shape)]: the C stride of dimension d.
RECURSIVE StrideC(_, _)
StrideC(shape, d) == IF d >= Len(shape) THEN 1 ELSE shape[d + 1] * StrideC(shape, d + 1)

\* The product of shape[1 .. d-1]: the Fortran stride of dimension d.
StrideF(shape, d) == ProdSeq(shape, d - 1)

\* The multi-index (0-based) of the c-th element (0-based) in C order.
Unravel(c, shape) == [d \in 1..Len(shape) |-> (c \div StrideC(shape, d)) % shape[d]]

RECURSIVE Dot(_, _, _, _)
\* idx[1] * Stride(shape, 1) + ... + idx[n] * Stride(shape, n)
Dot(idx, shape, n, fortran) ==
  IF n = 0 THEN 0
  ELSE idx[n] * (IF fortran THEN StrideF(shape, n) ELSE StrideC(shape, n))
         + Dot(idx, shape, n - 1, fortran)

\* The multi-index (0-based) of the c-th element (0-based) in Fortran order.
UnravelF(c, shape) == [d \in 1..Len(shape) |-> (c \div StrideF(shape, d)) % shape[d]]

\* ndarray.reshape(newshape, order=order) raises ValueError when the shape
\* does not hold the array's elements.
ndarray_reshape_raises(arr, newshape) == prod(newshape) # Len(arr.vals)

\* ndarray.reshape(newshape, order=order) of a flat array: in C order the
\* elements fill the last index first, in F order the first.
ndarray_reshape(arr, newshape, order) ==
  LET n == Len(arr.vals)
      src(c) == IF order = "F" THEN Dot(Unravel(c, newshape), newshape, Len(newshape), TRUE)
                ELSE c
  IN [dtype |-> arr.dtype, shape |-> newshape,
      vals |-> [c \in 1..n |-> arr.vals[src(c - 1) + 1]],
      mask |-> [c \in 1..n |-> arr.mask[src(c - 1) + 1]]]

\* data.reshape(*(shape or data.shape), order=order) raises ValueError.
reshape_raises(arr, shape) == shape # << >> /\ ndarray_reshape_raises(arr, shape)

\* data.reshape(*(shape or data.shape), order=order)
reshape(arr, shape, order) ==
  ndarray_reshape(arr, IF shape = << >> THEN arr.shape ELSE shape, order)

\* The elements of an array in the order ndarray.tobytes(order=order) writes
\* them.
flatten(arr, order) ==
  LET n == Len(arr.vals)
      src(c) == IF order = "F" THEN Dot(UnravelF(c, arr.shape), arr.shape, Len(arr.shape), FALSE)
                ELSE c
  IN [c \in 1..n |-> arr.vals[src(c - 1) + 1]]

\* As ClampIndex, but a negative index does not count from the end.
ClampIndex_no_wrap(i, n, step) ==
  LET lower == IF step < 0 THEN -1 ELSE 0
      upper == IF step < 0 THEN n - 1 ELSE n
  IN IF i < lower THEN lower ELSE IF i > upper THEN upper ELSE i

\* slice(start, stop, step).indices(n): the bounds clamped to the dimension.
ClampIndex(i, n, step) ==
  LET lower == IF step < 0 THEN -1 ELSE 0
      upper == IF step < 0 THEN n - 1 ELSE n
      j == IF i < 0 THEN i + n ELSE i
  IN IF j < lower THEN lower ELSE IF j > upper THEN upper ELSE j

\* The number of elements slice(start, stop, step) keeps of a dimension of
\* length n.
SliceLen(sl, n) ==
  LET step == sl[3]
      start == ClampIndex(sl[1], n, step)
      stop == ClampIndex(sl[2], n, step)
  IN IF step > 0
     THEN (IF stop > start THEN (stop - start + step - 1) \div step ELSE 0)
     ELSE (IF stop < start THEN (start - stop - step - 1) \div (-step) ELSE 0)

\* The k-th index (k = 0, 1, ...) slice(start, stop, step) keeps.
SliceIndex(sl, n, k) == ClampIndex(sl[1], n, sl[3]) + k * sl[3]

\* data[tuple(slice(*s) for s in selection)] raises for more slices than
\* dimensions (IndexError) and for a zero step (ValueError).
slice_raises(arr, selection) ==
  \/ Len(selection) > Len(arr.shape)
  \/ \E d \in DOMAIN selection : selection[d][3] = 0

\* data[tuple(slice(*s) for s in selection)]; a dimension past the last
\* slice is kept whole.
slice(arr, selection) ==
  LET full(d) == << 0, arr.shape[d], 1 >>
      sl(d) == IF d <= Len(selection) THEN selection[d] ELSE full(d)
      newshape == [d \in 1..Len(arr.shape) |-> SliceLen(sl(d), arr.shape[d])]
      src(c) == LET idx == Unravel(c, newshape)
                    from == [d \in 1..Len(arr.shape) |-> SliceIndex(sl(d), arr.shape[d], idx[d])]
                IN Dot(from, arr.shape, Len(arr.shape), FALSE)
  IN [dtype |-> arr.dtype, shape |-> newshape,
      vals |-> [c \in 1..prod(newshape) |-> arr.vals[src(c - 1) + 1]],
      mask |-> [c \in 1..prod(newshape) |-> arr.mask[src(c - 1) + 1]]]

\* ------------------------------------------------------------------------
\* The operation table (src/compliance/config.py)
\* ------------------------------------------------------------------------

OPERATIONS == << "select", "sum", "count", "max", "min" >>

\* The values of the unmasked elements, in order.
Unmasked(arr) == SelectSeq([i \in 1..Len(arr.vals) |-> << arr.vals[i], arr.mask[i] >>],
                           LAMBDA p : ~p[2])

\* ma.count(arr)
count(arr) == Cardinality({i \in 1..Len(arr.vals) : ~arr.mask[i]})

\* A 0-dimensional result.
Scalar(dtype, v) == [dtype |-> dtype, shape |-> << >>, vals |-> << v >>, mask |-> << FALSE >>]

\* numpy.ma.masked: what a reduction over no unmasked element returns.
masked == [dtype |-> "float64", shape |-> << >>, vals |-> << 0 >>, mask |-> << TRUE >>]

MaxOf(S) == CHOOSE x \in S : \A y \in S : y <= x

MinOf(S) == CHOOSE x \in S : \A y \in S : x <= y

\* a + b in floating point.  The values of the arrays are the sentinels
\* 1e20 and -1e20 and numbers below 1e3: a multiple of 1e20 swallows a number
\* that is not one, and every other sum is exact.
fadd(a, b) ==
  IF Abs(a) >= HugeF /\ Abs(b) < HugeF THEN a
  ELSE IF Abs(b) >= HugeF /\ Abs(a) < HugeF THEN b
  ELSE a + b

RECURSIVE SumFrom(_, _, _, _)
\* res += a[i] for i = lo .. hi, one element after the other.
SumFrom(res, a, lo, hi) ==
  IF lo > hi THEN res ELSE SumFrom(fadd(res, a[lo]), a, lo + 1, hi)

RECURSIVE LaneSum(_, _, _)
\* r[j] after the blocks 0 .. k of eight elements: r[j] = a[j], then
\* r[j] += a[8 * i + j].
LaneSum(a, j, k) == IF k = 0 THEN a[j] ELSE fadd(LaneSum(a, j, k - 1), a[8 * k + j])

\* numpy's sum of n <= 128 floating point elements in memory order (the
\* inner loop of np.add.reduce): fewer than eight elements are added one
\* after the other, starting from 0; otherwise eight partial sums run over
\* the whole blocks of eight, are added in pairs, and the elements left
\* over are added to the result.
pairwise_sum(a) ==
  LET n == Len(a)
      blocks == n \div 8
      r(j) == LaneSum(a, j, blocks - 1)
      res == fadd(fadd(fadd(r(1), r(2)), fadd(r(3), r(4))),
                  fadd(fadd(r(5), r(6)), fadd(r(7), r(8))))
  IN IF n < 8 THEN SumFrom(0, a, 1, n) ELSE SumFrom(res, a, 8 * blocks + 1, n)

\* OPERATION_FUNCS[operation](arr, axis), for axis = None (a reduction over
\* all the elements).  ma.sum adds the elements with 0 in the place of the
\* masked ones; an integer sum is exact in any order of the elements.
OPERATION_FUNCS(operation, arr, axis) ==
  LET u == Unmasked(arr)
      vs == {u[i][1] : i \in DOMAIN u}
      addend == [i \in DOMAIN u |-> u[i][1]]
      filled == [i \in DOMAIN arr.vals |-> IF arr.mask[i] THEN 0 ELSE arr.vals[i]]
  IN CASE operation = "select" -> arr
       [] operation = "sum" ->
            IF u = << >> /\ arr.vals # << >> THEN masked
            ELSE IF kind(arr.dtype) = "f" THEN Scalar(arr.dtype, pairwise_sum(filled))
            ELSE Scalar(arr.dtype, SumSeq(addend, Len(addend)))
       [] operation = "count" -> Scalar("int64", count(arr))
       [] operation = "max" -> IF vs = {} THEN masked ELSE Scalar(arr.dtype, MaxOf(vs))
       [] operation = "min" -> IF vs = {} THEN masked ELSE Scalar(arr.dtype, MinOf(vs))

\* np.array_equal(a, b): the same shape and the same elements (the data of
\* a masked array, whatever its mask).
array_equal(a, b) == a.shape = b.shape /\ a.vals = b.vals

\* ------------------------------------------------------------------------
\* The reference computation (src/compliance/test_basic_operations.py)
\* ------------------------------------------------------------------------

\* perform_operation(data, operation) calls OPERATION_FUNCS[operation] with
\* the array and the arguments `extra`; every entry of the table takes two
\* parameters (arr, axis), so the call raises TypeError unless exactly one
\* more argument is passed.  The source passes none (extra = << >>).
perform_operation_raises(extra) == 1 + Len(extra) # 2

\* The exception perform_operation(data, operation) raises, "None" for
\* none: the lookup OPERATION_FUNCS[operation] comes first (KeyError for an
\* operation that is not in the table), then the call.
perform_operation_error(operation, extra) ==
  IF operation \notin Range(OPERATIONS) THEN "KeyError"
  ELSE IF perform_operation_raises(extra) THEN "TypeError"
  ELSE None

perform_operation(data, operation, extra) ==
  IF perform_operation_error(operation, extra) # None THEN NoArray
  ELSE OPERATION_FUNCS(operation, data, extra[1])

\* As negative_controls_fail, but without the assertion on the missing data.
negative_controls_selection_only(operation, selection, missing, operation_result, unmasked_result, unselected_result) ==
  /\ selection # << >>
  /\ operation \notin {"min", "max"}
  /\ array_equal(operation_result, unselected_result)

\* As negative_controls_fail, but without the assertion on the selection.
negative_controls_missing_only(operation, selection, missing, operation_result, unmasked_result, unselected_result) ==
  /\ missing.cls # None
  /\ operation # "select"
  /\ array_equal(operation_result, unmasked_result)

\* The negative controls: an AssertionError unless the missing data (for
\* every operation but select) and the selection (for every operation but
\* min and max) have changed the result.
negative_controls_fail(operation, selection, missing, operation_result, unmasked_result, unselected_result) ==
  \/ /\ missing.cls # None
     /\ operation # "select"
     /\ array_equal(operation_result, unmasked_result)
  \/ /\ selection # << >>
     /\ operation \notin {"min", "max"}
     /\ array_equal(operation_result, unselected_result)

\* As calculate_expected_result, but the control of the selection is
\* computed before the mask is applied.
calculate_expected_result_unmasked_control(data, operation, shape, selection, order, missing, extra) ==
  LET reshaped == reshape(data, shape, order)
      has_missing == missing.cls # None
      has_selection == selection # << >>
      unmasked_result == IF has_missing THEN perform_operation(reshaped, operation, extra)
                         ELSE NoArray
      unselected_result == IF has_selection THEN perform_operation(reshaped, operation, extra)
                           ELSE NoArray
      masked_data == IF has_missing THEN mask(missing, reshaped) ELSE reshaped
      sliced == IF has_selection THEN slice(masked_data, selection) ELSE masked_data
      operation_result == perform_operation(sliced, operation, extra)
      failed(e) == [error |-> e, data |-> NoArray, operation_result |-> NoArray,
                    unmasked_result |-> NoArray, unselected_result |-> NoArray]
  IN IF reshape_raises(data, shape) THEN failed("ValueError")
     ELSE IF perform_operation_error(operation, extra) # None
     THEN failed(perform_operation_error(operation, extra))
     ELSE IF has_selection /\ slice_raises(masked_data, selection)
     THEN failed(IF Len(selection) > Len(masked_data.shape) THEN "IndexError" ELSE "ValueError")
     ELSE IF negative_controls_fail(operation, selection, missing, operation_result,
                                    unmasked_result, unselected_result)
     THEN failed("AssertionError")
     ELSE [error |-> None, data |-> sliced, operation_result |-> operation_result,
           unmasked_result |-> unmasked_result, unselected_result |-> unselected_result]

\* calculate_expected_result(data, operation, shape, selection, order,
\* missing): reshape, mask, slice, operate, check the negative controls.
\* The record holds the exception raised ("None" for a return), the two
\* values returned and the negative controls.
calculate_expected_result(data, operation, shape, selection, order, missing, extra) ==
  LET reshaped == reshape(data, shape, order)
      has_missing == missing.cls # None
      has_selection == selection # << >>
      unmasked_result == IF has_missing THEN perform_operation(reshaped, operation, extra)
                         ELSE NoArray
      masked_data == IF has_missing THEN mask(missing, reshaped) ELSE reshaped
      unselected_result == IF has_selection THEN perform_operation(masked_data, operation, extra)
                           ELSE NoArray
      sliced == IF has_selection THEN slice(masked_data, selection) ELSE masked_data
      operation_result == perform_operation(sliced, operation, extra)
      failed(e) == [error |-> e, data |-> NoArray, operation_result |-> NoArray,
                    unmasked_result |-> NoArray, unselected_result |-> NoArray]
  IN IF reshape_raises(data, shape) THEN failed("ValueError")
     ELSE IF perform_operation_error(operation, extra) # None
     THEN failed(perform_operation_error(operation, extra))
     ELSE IF has_selection /\ slice_raises(masked_data, selection)
     THEN failed(IF Len(selection) > Len(masked_data.shape) THEN "IndexError" ELSE "ValueError")
     ELSE IF negative_controls_fail(operation, selection, missing, operation_result,
                                    unmasked_result, unselected_result)
     THEN failed("AssertionError")
     ELSE [error |-> None, data |-> sliced, operation_result |-> operation_result,
           unmasked_result |-> unmasked_result, unselected_result |-> unselected_result]

\* ------------------------------------------------------------------------
\* Text: what the headers of a response hold
\* ------------------------------------------------------------------------

Digits == << "0", "1", "2", "3", "4", "5", "6", "7", "8", "9" >>

RECURSIVE str(_)
\* str(n) of an integer n >= 0: its decimal digits.
str(n) == IF n < 10 THEN << Digits[n + 1] >> ELSE str(n \div 10) \o << Digits[(n % 10) + 1] >>

RECURSIVE Join(_, _, _)
\* sep.join(str(x) for x in list[1..n])
Join(list, n, sep) ==
  IF n = 0 THEN << >>
  ELSE IF n = 1 THEN str(list[1])
  ELSE Join(list, n - 1, sep) \o sep \o str(list[n])

\* str(list) of a list of integers: "[2, 3]".
str_list(list) == << "[" >> \o Join(list, Len(list), << ",", " " >>) \o << "]" >>

\* json.dumps(list, separators=(",", ":")) of a list of integers: "[2,3]".
json_dumps(list) == << "[" >> \o Join(list, Len(list), << "," >>) \o << "]" >>

\* The value of a decimal digit, -1 for any other character.
DigitValue(c) ==
  IF \E d \in 1..10 : Digits[d] = c THEN (CHOOSE d \in 1..10 : Digits[d] = c) - 1 ELSE -1

NoList == [ok |-> FALSE, value |-> << >>]

RECURSIVE json_scan(_, _, _, _, _)
\* The scanner of json_loads at character i: st is what it expects ("open":
\* the bracket; "first": a number or the closing bracket; "value": a number;
\* "number": more digits; "after": a comma or the closing bracket; "end":
\* nothing more), cur the number being read, acc the numbers read.
json_scan(text, i, st, cur, acc) ==
  IF i > Len(text) THEN [ok |-> st = "end", value |-> acc]
  ELSE LET c == text[i]
           d == DigitValue(c)
       IN CASE st = "open" ->
                 IF c = " " THEN json_scan(text, i + 1, "open", cur, acc)
                 ELSE IF c = "[" THEN json_scan(text, i + 1, "first", cur, acc)
                 ELSE NoList
            [] st \in {"first", "value"} ->
                 IF c = " " THEN json_scan(text, i + 1, st, cur, acc)
                 ELSE IF c = "]" /\ st = "first" THEN json_scan(text, i + 1, "end", cur, acc)
                 ELSE IF d >= 0 THEN json_scan(text, i + 1, "number", << d >>, acc)
                 ELSE NoList
            [] st = "number" ->
                 IF d >= 0
                 THEN (IF cur = << 0 >> THEN NoList
                       ELSE json_scan(text, i + 1, "number", << cur[1] * 10 + d >>, acc))
                 ELSE IF c = " " THEN json_scan(text, i + 1, "after", << >>, acc \o cur)
                 ELSE IF c = "," THEN json_scan(text, i + 1, "value", << >>, acc \o cur)
                 ELSE IF c = "]" THEN json_scan(text, i + 1, "end", << >>, acc \o cur)
                 ELSE NoList
            [] st = "after" ->
                 IF c = " " THEN json_scan(text, i + 1, "after", cur, acc)
                 ELSE IF c = "," THEN json_scan(text, i + 1, "value", cur, acc)
                 ELSE IF c = "]" THEN json_scan(text, i + 1, "end", cur, acc)
                 ELSE NoList
            [] OTHER ->
                 IF c = " " THEN json_scan(text, i + 1, "end", cur, acc) ELSE NoList

\* json.loads(text) of the text of a list of integers: ok is FALSE when the
\* text is not one (JSONDecodeError, or a value no list equals).
json_loads(text) == json_scan(text, 1, "open", << >>, << >>)

\* ------------------------------------------------------------------------
\* ndarray.tobytes of a result and np.frombuffer
\* ------------------------------------------------------------------------

\* MaskedArray.filled(): the masked elements replaced by the default fill
\* value of the dtype (999999, 1e20 for a float).
filled(arr) ==
  [i \in 1..Len(arr.vals) |->
     IF arr.mask[i] THEN (IF kind(arr.dtype) = "f" THEN HugeF ELSE 999999) ELSE arr.vals[i]]

\* operation_result.tobytes(order=order): the bytes of the elements, the
\* masked ones filled, in the host's byte order.
result_tobytes(arr, order, host) ==
  tobytes(flatten([arr EXCEPT !.vals = filled(arr)], order), arr.dtype, host, FALSE)

\* An integer of w bytes (b[1] the most significant) as a value of the
\* model, << >> when its magnitude is 2^31 or more.
IntFromBytes(b, w, signed) ==
  LET low == SubSeq(b, w - 3, w)
      rest == low[2] * 65536 + low[3] * 256 + low[4]
      zeros == \A k \in 1..(w - 4) : b[k] = 0
      ones == \A k \in 1..(w - 4) : b[k] = 255
  IN IF low[1] < 128 /\ zeros THEN << low[1] * 16777216 + rest >>
     ELSE IF signed /\ low[1] >= 128 /\ ones THEN << (low[1] - 256) * 16777216 + rest >>
     ELSE << >>

\* A float of w bytes (b[1] the most significant) in tenths: the tabulated
\* values, and the multiples of 0.5 below 2^20; << >> for any other value.
FloatFromBytes(b, w) ==
  LET s == IF b[1] >= 128 THEN -1 ELSE 1
      m == [b EXCEPT ![1] = @ % 128]
      word == m[1] * 16777216 + m[2] * 65536 + m[3] * 256 + m[4]
      bits == IF w = 4 THEN 23 ELSE 20
      unit == Pow(2, bits)
      e == (word \div unit) - (IF w = 4 THEN 126 ELSE 1022)
      frac == word % unit
      step == Pow(2, bits - e)
      tabulated == {t \in {99, 109, HugeF} : \A k \in 1..w : FloatByte(t, w, k - 1) = m[k]}
  IN IF tabulated # {} THEN << s * (CHOOSE t \in tabulated : TRUE) >>
     ELSE IF \E k \in 5..w : m[k] # 0 THEN << >>
     ELSE IF word = 0 THEN << 0 >>
     ELSE IF e < 0 \/ e > 20 THEN << >>
     ELSE IF frac % step # 0 THEN << >>
     ELSE << s * 5 * (Pow(2, e) + frac \div step) >>

\* The element held by the w bytes at an address of a host's memory.
ElemFromMemory(b, dtype, host) ==
  LET w == itemsize(dtype)
      be == IF host = "little" THEN Reverse(b) ELSE b
  IN IF kind(dtype) = "f" THEN FloatFromBytes(be, w)
     ELSE IntFromBytes(be, w, kind(dtype) = "i")

\* np.frombuffer(content, dtype=name) raises: KeyError for an absent header
\* (the lookup of its argument), TypeError for a name that is no dtype,
\* ValueError for a buffer that is no whole number of elements.
frombuffer_raises(content, name) ==
  CASE name = << >> -> "KeyError"
    [] name[1] \notin Range(ALLOWED_DTYPES) -> "TypeError"
    [] Len(content) % itemsize(name[1]) # 0 -> "ValueError"
    [] OTHER -> None

\* np.frombuffer(content, dtype=dtype): the flat array of the elements in
\* the host's byte order; vals[i] is << v >>, or << >> for a value outside
\* the model's range.
frombuffer(content, dtype, host) ==
  LET w == itemsize(dtype)
      n == Len(content) \div w
  IN [dtype |-> dtype, shape |-> << n >>,
      vals |-> [i \in 1..n |-> ElemFromMemory(SubSeq(content, (i - 1) * w + 1, i * w), dtype, host)],
      mask |-> [i \in 1..n |-> FALSE]]

\* np.allclose(a, b) for b the reference result: every element of a is
\* close to the element of b it is compared with, the masked elements of b
\* aside; FALSE when b has elements and every one is masked (the reduction
\* of the comparison is then numpy.ma.masked, which is falsy).  Arrays of
\* different shapes are compared when each holds one element (the
\* broadcast of a scalar).
allclose(a, b) ==
  LET n == Len(b.vals)
  IN /\ \/ a.shape = b.shape
        \/ Len(a.vals) = 1 /\ n = 1
     /\ Len(a.vals) = n
     /\ n > 0 => \E i \in 1..n : ~b.mask[i]
     /\ \A i \in 1..n :
          b.mask[i] \/ (a.vals[i] # << >> /\ isclose(a.vals[i][1], b.vals[i]))

\* ------------------------------------------------------------------------
\* The request (src/compliance/test_basic_operations.py, lines 252-274)
\* ------------------------------------------------------------------------

S3_SOURCE == "http://localhost:9000"

BUCKET_NAME == "active-storage-compliance-test-data"

\* missing.to_request_data(): the "missing" field of the request.
to_request_data(missing) ==
  CASE missing.cls = "MissingValue" -> [missing_value |-> missing.args[1]]
    [] missing.cls = "MissingValues" -> [missing_values |-> missing.args]
    [] missing.cls = "ValidMax" -> [valid_max |-> missing.args[1]]
    [] missing.cls = "ValidMin" -> [valid_min |-> missing.args[1]]
    [] OTHER -> [valid_range |-> missing.args]

\* As request_size, but the caller's size parameter.
request_size_parameter(a, compressed_size) == a.size

\* "size": compressed_size
request_size(a, compressed_size) == << compressed_size >>

\* request_data: the fields that are always sent, then the optional ones (an
\* absent key is << >>, a present one << value >>).
request(name, a, size) ==
  [source |-> S3_SOURCE, bucket |-> BUCKET_NAME, object |-> name, dtype |-> a.dtype,
   offset |-> a.offset, size |-> request_size(a, size), shape |-> a.shape, order |-> a.order,
   selection |-> a.selection,
   compression |-> IF a.compression # None THEN << [id |-> a.compression] >> ELSE << >>,
   filters |-> IF a.filters # << >>
               THEN << [i \in DOMAIN a.filters |->
                          [id |-> a.filters[i], element_size |-> itemsize(a.dtype)]] >>
               ELSE << >>,
   missing |-> IF a.missing.cls # None THEN << to_request_data(a.missing) >> ELSE << >>,
   byte_order |-> IF a.byte_order # None THEN << a.byte_order >> ELSE << >>]

\* ------------------------------------------------------------------------
\* Responses.  A response is [status_code, content, dtype, shape, count,
\* byte_order, content_length]: the status, the body and the headers the
\* validator reads (<< text >>, or << >> for a header that is not sent).
\* ------------------------------------------------------------------------

NoResponse == [status_code |-> 0, content |-> << >>, dtype |-> << >>, shape |-> << >>,
               count |-> << >>, byte_order |-> << >>, content_length |-> << >>]

\* The attributes of an object before BaseMockResponse.__init__ has run.
NewObject == {}

\* MockResponse(status_code, array_data, operation_result, order): the
\* headers are built from self.content before BaseMockResponse.__init__ has
\* assigned it, and they hold no x-activestorage-byte-order.
MockResponse(status_code, array_data, operation_result, order, host) ==
  LET self == NewObject
      content == result_tobytes(operation_result, order, host)
  IN IF "content" \notin self
     THEN [error |-> "AttributeError", response |-> NoResponse]
     ELSE [error |-> None,
           response |-> [status_code |-> status_code, content |-> content,
                         dtype |-> << operation_result.dtype >>,
                         shape |-> << str_list(operation_result.shape) >>,
                         count |-> << str(count(array_data)) >>,
                         byte_order |-> << >>,
                         content_length |-> << str(Len(content)) >>]]

\* The dtype of the same width and another kind.
OtherDtype(dtype) ==
  CASE dtype = "int32" -> "float32" [] dtype = "float32" -> "int32"
    [] dtype = "uint32" -> "int32" [] dtype = "int64" -> "float64"
    [] dtype = "float64" -> "int64" [] OTHER -> "int64"

\* The response that declares the reference result, in the host's byte order.
ReferenceResponse(operation_result, array_data, order, host) ==
  LET content == result_tobytes(operation_result, order, host)
  IN [status_code |-> 200, content |-> content,
      dtype |-> << operation_result.dtype >>,
      shape |-> << json_dumps(operation_result.shape) >>,
      count |-> << str(count(array_data)) >>,
      byte_order |-> << "little" >>,
      content_length |-> << str(Len(content)) >>]

\* What the proxy may answer: the reference response, and the responses
\* that differ from it in one place.  `unsliced` is the number of unmasked
\* elements before the selection.
Responses(operation_result, array_data, order, host, unsliced) ==
  LET r == ReferenceResponse(operation_result, array_data, order, host)
      n == count(array_data)
      other == [operation_result EXCEPT
                  !.vals = [i \in DOMAIN @ |-> @[i] + One(operation_result.dtype)]]
  IN { r,
       [r EXCEPT !.status_code = 400],
       [r EXCEPT !.dtype = << OtherDtype(operation_result.dtype) >>],
       [r EXCEPT !.shape = << str_list(operation_result.shape) >>],
       [r EXCEPT !.shape = << json_dumps(operation_result.shape \o << 1 >>) >>],
       [r EXCEPT !.count = << str(n + 1) >>],
       [r EXCEPT !.count = << str(unsliced) >>],
       [r EXCEPT !.byte_order = << "big" >>],
       [r EXCEPT !.content = result_tobytes(other, order, host)],
       [r EXCEPT !.content_length = << str(Len(r.content) + 1) >>] }

\* ------------------------------------------------------------------------
\* The validator (src/compliance/test_basic_operations.py, lines 297-328)
\* ------------------------------------------------------------------------

TEST_X_ACTIVESTORAGE_COUNT_HEADER == TRUE

TEST_BYTE_ORDER == TRUE

\* request_data["dtype"] if operation != "count" else "int64"
required_dtype(request_dtype, operation) ==
  IF operation # "count" THEN request_dtype ELSE "int64"

\* assert headers["x-activestorage-dtype"] == (the required dtype)
check_dtype(proxy_response, request_dtype, operation) ==
  proxy_response.dtype = << required_dtype(request_dtype, operation) >>

\* As check_shape, but the assertion is left out.
check_shape_skipped(proxy_shape, operation_result) == TRUE

\* assert proxy_shape == list(operation_result.shape)
check_shape(proxy_shape, operation_result) == proxy_shape = operation_result.shape

\* As check_count, but the assertion is left out.
check_count_skipped(proxy_response, array_data) == TRUE

\* assert headers["x-activestorage-count"] == str(ma.count(array_data))
check_count(proxy_response, array_data) ==
  proxy_response.count = << str(count(array_data)) >>

\* assert headers["x-activestorage-byte-order"] == "little"
check_byte_order(proxy_response) == proxy_response.byte_order = << "little" >>

\* As check_content_length, but the assertion is left out.
check_content_length_skipped(proxy_response, operation_result, host) == TRUE

\* assert headers["content-length"] == str(len(operation_result.tobytes()))
check_content_length(proxy_response, operation_result, host) ==
  proxy_response.content_length = << str(Len(result_tobytes(operation_result, "C", host))) >>

\* The checks of the validator in the order of the source: the step that
\* ends the test and the exception it raises, or "passed".
validate(proxy_response, request_dtype, operation, operation_result, array_data, order, host) ==
  LET raised == frombuffer_raises(proxy_response.content, proxy_response.dtype)
      proxy_result == frombuffer(proxy_response.content, proxy_response.dtype[1], host)
      loaded == json_loads(proxy_response.shape[1])
      proxy_shape == loaded.value
      fail(step, exception) == [verdict |-> step, error |-> exception]
  IN IF proxy_response.status_code # 200 THEN fail("status_code", "AssertionError")
     ELSE IF raised # None THEN fail("frombuffer", raised)
     ELSE IF ~check_dtype(proxy_response, request_dtype, operation)
     THEN fail("dtype", "AssertionError")
     ELSE IF proxy_response.shape = << >> THEN fail("shape", "KeyError")
     ELSE IF ~loaded.ok THEN fail("shape", "JSONDecodeError")
     ELSE IF ~check_shape(proxy_shape, operation_result) THEN fail("shape", "AssertionError")
     ELSE IF TEST_X_ACTIVESTORAGE_COUNT_HEADER /\ proxy_response.count = << >>
     THEN fail("count", "KeyError")
     ELSE IF TEST_X_ACTIVESTORAGE_COUNT_HEADER /\ ~check_count(proxy_response, array_data)
     THEN fail("count", "AssertionError")
     ELSE IF TEST_BYTE_ORDER /\ proxy_response.byte_order = << >>
     THEN fail("byte_order", "KeyError")
     ELSE IF TEST_BYTE_ORDER /\ ~check_byte_order(proxy_response)
     THEN fail("byte_order", "AssertionError")
     ELSE IF ndarray_reshape_raises(proxy_result, proxy_shape) THEN fail("reshape", "ValueError")
     ELSE IF ~allclose(ndarray_reshape(proxy_result, proxy_shape, order), operation_result)
     THEN fail("allclose", "AssertionError")
     ELSE IF proxy_response.content_length = << >> THEN fail("content_length", "KeyError")
     ELSE IF ~check_content_length(proxy_response, operation_result, host)
     THEN fail("content_length", "AssertionError")
     ELSE [verdict |-> "passed", error |-> None]

\* ------------------------------------------------------------------------
\* The test cases: the arguments test_basic_operation is called with
\* ------------------------------------------------------------------------

\* The bounds of the model.
NumStreams == 1    \* the random streams considered (see seed_state)
NumPads == 2       \* the byte strings os.urandom may return
NumClocks == 2     \* the times gzip may stamp a member with

Case(operation, dtype, shape, selection, order, offset, size, trailing, compression, filters, missing, byte_order) ==
  [operation |-> operation, dtype |-> dtype, shape |-> shape, selection |-> selection,
   order |-> order, offset |-> offset, size |-> size, trailing |-> trailing,
   compression |-> compression, filters |-> filters, missing |-> missing,
   byte_order |-> byte_order]

DTYPES == Range(ALLOWED_DTYPES)

OPS == Range(OPERATIONS)

\* (shape, selection) of test_basic_operation's parametrization, with the
\* shapes [5, 5, 4], [100] and [20, 5] scaled down.
BasicShapes ==
  { << << >>, << >> >>,
    << << 3, 2, 2 >>, << >> >>,
    << << 10 >>, << << -1, -5, -2 >> >> >>,
    << << 4, 3 >>, << << 0, 3, 2 >>, << 1, 3, 1 >> >> >> }

TestBasicOperationCases ==
  { Case(op, dt, ss[1], ss[2], order, << >>, << >>, << >>, None, << >>, NoMissing, None) :
      op \in OPS, dt \in DTYPES, ss \in BasicShapes, order \in {"C", "F"} }

\* param_combos: (dtype, shape, selection, offset, size, trailing), scaled.
ParamCombos ==
  { << "int64", << 4 >>, << >>, << 16 >>, << 32 >>, << >> >>,
    << "float32", << 3, 2 >>, << << 0, 3, 2 >>, << 0, 2, 1 >> >>, << 42 >>, << 24 >>, << 42 >> >>,
    << "uint32", << 3, 2, 2 >>, << << 0, 3, 2 >>, << 0, 2, 1 >>, << 0, 1, 1 >> >>,
       << 20 >>, << 48 >>, << >> >>,
    << "int32", << 3, 2, 2 >>, << << 0, 3, 2 >>, << 0, 2, 1 >>, << 0, 2, 2 >> >>,
       << 12 >>, << >>, << >> >> }

TestOffsetAndSizeCases ==
  { Case(op, c[1], c[2], c[3], order, c[4], c[5], c[6], None, << >>, NoMissing, None) :
      op \in OPS, c \in ParamCombos, order \in {"C", "F"} }

COMPRESSION_ALGS == << "gzip", "zlib" >>

FILTER_ALGS == << "shuffle" >>

TestCompressionCases ==
  { Case(op, "int64", << 3, 2, 2 >>, << >>, "C", offset, << >>, trailing, compression,
         filters, NoMissing, None) :
      op \in OPS, compression \in Range(COMPRESSION_ALGS),
      filters \in {<< >>} \cup {<< f >> : f \in Range(FILTER_ALGS)},
      offset \in {<< >>, << 64 >>}, trailing \in {<< >>, << 64 >>} }

\* The shape and the selections of test_missing_data and test_byte_order
\* ([10, 5, 2] scaled down; the last slice ends past its dimension, as in
\* the source).
MissingShape == << 4, 3, 2 >>

MissingSelections == { << >>, << << 0, 4, 2 >>, << 0, 2, 1 >>, << 0, 3, 1 >> >> }

\* The (operation, class) pairs test_missing_data skips.
Skipped(operation, cls) ==
  \/ operation = "min" /\ cls = "ValidMax"
  \/ operation = "max" /\ cls = "ValidMin"

TestMissingDataCases ==
  { Case(oc[1], dt, MissingShape, selection, "C", << >>, << >>, << >>, None, << >>,
         create(oc[2], dt, oc[1]), None) :
      oc \in {p \in OPS \X Range(MISSING_DATA) : ~Skipped(p[1], p[2])},
      dt \in DTYPES, selection \in MissingSelections }

TestByteOrderCases ==
  { Case(op, dt, MissingShape, selection, "C", << >>, << >>, << >>, None, << >>,
         NoMissing, byte_order) :
      op \in OPS, dt \in DTYPES, selection \in MissingSelections,
      byte_order \in {"little", "big"} }

\* Further calls of test_basic_operation, outside the suite's own
\* parametrization: every dtype with every compression, filter list and
\* byte order; float32 with gzip, shuffle and 42 bytes of padding on both
\* sides; the pairs test_missing_data skips; missing data in an array of two
\* elements, whole or with one element selected; selections that keep the
\* whole array or its extremum;
\* a size given together with a compression and padding on both sides.
DirectCases ==
  { Case("sum", dt, << 2, 2 >>, << >>, "C", << >>, << >>, << >>, compression, filters,
         NoMissing, byte_order) :
      dt \in DTYPES, compression \in {None, "gzip", "zlib"},
      filters \in {<< >>, << "shuffle" >>}, byte_order \in {None, "little", "big"} }
  \cup
  { Case(op, "float32", << 3, 2 >>, << >>, "C", << 42 >>, << >>, << 42 >>, "gzip",
         << "shuffle" >>, NoMissing, None) : op \in {"sum", "select"} }
  \cup
  { Case("sum", "int32", << 4 >>, << >>, "C", << 8 >>, << 16 >>, << 8 >>, compression,
         << "shuffle" >>, NoMissing, None) : compression \in {"gzip", "zlib"} }
  \cup
  { Case(oc[1], dt, MissingShape, << >>, "C", << >>, << >>, << >>, None, << >>,
         create(oc[2], dt, oc[1]), None) :
      oc \in {p \in OPS \X Range(MISSING_DATA) : Skipped(p[1], p[2])}, dt \in DTYPES }
  \cup
  { Case(op, dt, << 2 >>, selection, "C", << >>, << >>, << >>, None, << >>,
         create(cls, dt, op), None) :
      op \in OPS, dt \in {"uint32", "float32"},
      selection \in {<< >>, << << 0, 1, 1 >> >>, << << 1, 2, 1 >> >>},
      cls \in Range(MISSING_DATA) }
  \cup
  { Case(op, "int32", << 4 >>, << selection >>, "C", << >>, << >>, << >>, None, << >>,
         NoMissing, None) :
      op \in OPS, selection \in {<< 0, 4, 1 >>, << 3, -5, -1 >>, << 0, 3, 1 >>, << 1, 4, 2 >>} }

\* Further calls of test_basic_operation with arguments of its own.
ArgumentCases ==
  \* a size that is no whole number of elements, is zero or disagrees with
  \* the shape.
  { Case("sum", c[1], c[2], << >>, "C", << >>, c[3], << >>, None, << >>, NoMissing, None) :
      c \in { << "int32", << 2 >>, << 8 >> >>, << "int32", << 2 >>, << 10 >> >>,
              << "int32", << 2 >>, << 0 >> >>, << "int32", << 2 >>, << 16 >> >>,
              << "int64", << 3 >>, << 8 >> >>, << "int32", << >>, << 10 >> >>,
              << "int32", << >>, << 0 >> >>, << "float64", << >>, << 24 >> >> } }
  \cup
  \* selections of every form: negative indices and steps, empty, with
  \* fewer or more slices than dimensions, with bounds outside the
  \* dimension, with a zero step.
  { Case(op, "int32", ss[1], ss[2], "C", << >>, << >>, << >>, None, << >>, NoMissing, None) :
      op \in {"select", "count"},
      ss \in { << << 100 >>, << << -10, -50, -4 >> >> >>,
               << << 4, 3 >>, << << 0, 2, 1 >> >> >>,
               << << 4, 3 >>, << << -1, -5, -1 >>, << 2, 0, -1 >> >> >>,
               << << 4, 3 >>, << << 1, 1, 1 >>, << 0, 3, 1 >> >> >>,
               << << 4 >>, << << 0, 2, 1 >>, << 0, 1, 1 >> >> >>,
               << << 4 >>, << << 0, 9, 1 >> >> >>,
               << << 4 >>, << << -9, 2, 1 >> >> >>,
               << << 4 >>, << << 5, 9, 1 >> >> >>,
               << << 4 >>, << << 0, 4, 0 >> >> >> } }
  \cup
  \* the operation mean.
  { Case("mean", dt, shape, << >>, "C", << >>, << >>, << >>, None, << >>, NoMissing, None) :
      dt \in {"int32", "float64"}, shape \in {<< 3 >>, << 2, 2 >>} }
  \cup
  \* a compression or a filter that filter_pipeline does not know.
  { Case("sum", "int32", << 2 >>, << >>, "C", << >>, << >>, << >>, cf[1], cf[2], NoMissing, None) :
      cf \in { << "lz4", << >> >>, << "lz4", << "shuffle" >> >>, << None, << "delta" >> >>,
               << "gzip", << "shuffle", "delta" >> >>, << "zlib", << "delta", "shuffle" >> >> } }
  \cup
  \* calls that take every step of the encoder: a byte order, filters, a
  \* compression and padding on both sides.
  { Case("sum", "int32", << 2 >>, << >>, "C", << 3 >>, << >>, << 5 >>, compression, filters,
         NoMissing, "big") :
      compression \in {"gzip", "zlib"}, filters \in {<< "shuffle" >>, << "shuffle", "shuffle" >>} }

Cases ==
  TestBasicOperationCases \cup TestOffsetAndSizeCases \cup TestCompressionCases
    \cup TestMissingDataCases \cup TestByteOrderCases \cup DirectCases \cup ArgumentCases

\* ------------------------------------------------------------------------
\* The state of one run of test_basic_operation
\* ------------------------------------------------------------------------

VARIABLES
  pc,                \* where the run is
  args,              \* the arguments of test_basic_operation
  host,              \* sys.byteorder
  stream,            \* which random stream the generators produce
  proxy_url,         \* PROXY_URL: "None" when the proxy is mocked
  extra,             \* what perform_operation passes after the array
  np_random,         \* the state of numpy's global generator
  data,              \* the array generate_test_array returned
  object_data,       \* the bytes of the S3 object
  compressed_size,   \* the length generate_object_data returned
  bucket,            \* the S3 bucket: the objects uploaded, by key
  expected,          \* what calculate_expected_result computed
  error,             \* the exception that ended the run, or "None"
  request_data,      \* << the JSON of the request >>, << >> before it is built
  proxy_response,    \* the response of the proxy
  verdict,           \* the check of the validator that failed, or "passed"
  executor           \* the tasks of the benchmark's ProcessPoolExecutor

vars == << pc, args, host, promotion, executor, stream, proxy_url, extra, np_random, data, object_data,
           compressed_size, bucket, expected, error, request_data, proxy_response,
           verdict >>

NoExpected == [error |-> None, data |-> NoArray, operation_result |-> NoArray,
               unmasked_result |-> NoArray, unselected_result |-> NoArray]

\* The global generator of a process in which numpy has drawn nothing yet.
FreshGenerator == [key |-> 0, pos |-> 0]

\* The state before test_basic_operation runs one of `cases`, with the
\* global generator in one of `generators`.
StartFrom(cases, generators, urls, passed) ==
  /\ pc = "start"
  /\ args \in cases
  /\ host \in {"little", "big"}
  /\ promotion \in Promotions
  /\ executor = << >>
  /\ stream \in 1..NumStreams
  /\ proxy_url \in urls
  /\ extra = passed
  /\ np_random \in generators
  /\ data = NoArray
  /\ object_data = << >>
  /\ compressed_size = 0
  /\ bucket = << >>
  /\ expected = NoExpected
  /\ error = None
  /\ request_data = << >>
  /\ proxy_response = NoResponse
  /\ verdict = None

\* The state before test_basic_operation runs, whatever the case.
Start(urls, passed) == StartFrom(Cases, {FreshGenerator}, urls, passed)

PROXY_URL == "http://localhost:8080"

\* The suite as configured and written: PROXY_URL is set, and
\* perform_operation passes the array alone.
Init == Start({PROXY_URL}, << >>)

\* create_test_data, first call: generate_test_array.
GenerateTestArray ==
  /\ pc = "start"
  /\ IF generate_test_array_raises(args.dtype, args.shape, args.size)
     THEN /\ pc' = "failed"
          /\ error' = "AssertionError"
          /\ np_random' = np_random_seed(np_random, 10, stream)
          /\ data' = data
     ELSE /\ pc' = "generated"
          /\ error' = error
          /\ np_random' = RngAfter(np_random_seed(np_random, 10, stream),
                                   num_elements(args.dtype, args.shape, args.size))
          /\ data' = generate_test_array(np_random, args.dtype, args.shape, args.size,
                                         args.missing, stream)
  /\ UNCHANGED << args, host, promotion, executor, stream, proxy_url, extra, object_data, compressed_size,
                  bucket, expected, request_data, proxy_response, verdict >>

\* create_test_data, second call: generate_object_data.  The padding and
\* the time stamp of a gzip member are the operating system's to choose.
GenerateObjectData ==
  /\ pc = "generated"
  /\ IF filter_pipeline_raises(args.compression, args.filters)
     THEN /\ pc' = "failed"
          /\ error' = "AssertionError"
          /\ UNCHANGED << object_data, compressed_size >>
     ELSE \E padseed \in 1..(IF OrZero(args.offset) + OrZero(args.trailing) > 0
                              THEN NumPads ELSE 1),
             mtime \in 0..(IF args.compression = "gzip" THEN NumClocks - 1 ELSE 0) :
            LET r == generate_object_data(data, args.offset, args.trailing,
                                          args.compression, args.filters, args.dtype,
                                          args.byte_order, host, mtime, padseed)
            IN /\ pc' = "encoded"
               /\ error' = error
               /\ object_data' = r[1]
               /\ compressed_size' = r[2]
  /\ UNCHANGED << args, host, promotion, executor, stream, proxy_url, extra, np_random, data, bucket,
                  expected, request_data, proxy_response, verdict >>

\* As filename, but the compression is no part of the name.
filename_without_compression(a) == << [a EXCEPT !.compression = None] >>

\* The name of the object: every argument of the test is part of it.
filename(a) == << a >>

\* s3_client.upload_fileobj(stream, bucket, filename): the object of the
\* key is replaced, or added to the bucket.
upload_to_s3(objects, data_bytes, key) ==
  IF \E i \in DOMAIN objects : objects[i].key = key
  THEN [i \in DOMAIN objects |->
          IF objects[i].key = key THEN [key |-> key, body |-> data_bytes] ELSE objects[i]]
  ELSE Append(objects, [key |-> key, body |-> data_bytes])

\* create_test_data, third call: create_test_s3_object uploads the object.
CreateTestS3Object ==
  /\ pc = "encoded"
  /\ pc' = "uploaded"
  /\ bucket' = upload_to_s3(bucket, object_data, filename(args))
  /\ UNCHANGED << args, host, promotion, executor, stream, proxy_url, extra, np_random, data, object_data,
                  compressed_size, expected, error, request_data, proxy_response,
                  verdict >>

\* create_test_data, last call: calculate_expected_result.
CalculateExpectedResult ==
  /\ pc = "uploaded"
  /\ LET r == calculate_expected_result(data, args.operation, args.shape,
                                        args.selection, args.order, args.missing, extra)
     IN /\ expected' = r
        /\ error' = r.error
        /\ pc' = IF r.error = None THEN "calculated" ELSE "failed"
  /\ UNCHANGED << args, host, promotion, executor, stream, proxy_url, extra, np_random, data, object_data,
                  compressed_size, bucket, request_data, proxy_response, verdict >>

Next ==
  \/ GenerateTestArray
  \/ GenerateObjectData
  \/ CreateTestS3Object
  \/ CalculateExpectedResult

Spec == Init /\ [][Next]_vars

\* ------------------------------------------------------------------------
\* The rest of test_basic_operation.  As written it is never reached:
\* CalculateExpectedResult ends every run (perform_operation raises
\* TypeError, or the reshape raises before it).  SpecAxis is the suite with
\* the call of the table completed by the axis the entries take,
\* OPERATION_FUNCS[operation](data, None).
\* ------------------------------------------------------------------------

\* The number of unmasked elements before the selection is applied.
unsliced_count(a, arr) == count(mask(a.missing, arr))

\* request_data = {...}
BuildRequest ==
  /\ pc = "calculated"
  /\ pc' = "requested"
  /\ request_data' = << request(filename(args), args, compressed_size) >>
  /\ UNCHANGED << args, host, promotion, executor, stream, proxy_url, extra, np_random, data, object_data,
                  compressed_size, bucket, expected, error, proxy_response, verdict >>

\* requests.post(...) with PROXY_URL set: the proxy answers.
PostProxy ==
  /\ pc = "requested"
  /\ proxy_url # None
  /\ \E response \in Responses(expected.operation_result, expected.data, args.order, host,
                               unsliced_count(args, data)) :
       proxy_response' = response
  /\ pc' = "responded"
  /\ UNCHANGED << args, host, promotion, executor, stream, proxy_url, extra, np_random, data, object_data,
                  compressed_size, bucket, expected, error, request_data, verdict >>

\* requests.post(...) with PROXY_URL = None: the monkeypatched post builds a
\* MockResponse.
PostMock ==
  /\ pc = "requested"
  /\ proxy_url = None
  /\ LET r == MockResponse(200, expected.data, expected.operation_result, args.order, host)
     IN /\ proxy_response' = r.response
        /\ error' = r.error
        /\ pc' = IF r.error = None THEN "responded" ELSE "failed"
  /\ UNCHANGED << args, host, promotion, executor, stream, proxy_url, extra, np_random, data, object_data,
                  compressed_size, bucket, expected, request_data, verdict >>

\* The assertions on the response.
Validate ==
  /\ pc = "responded"
  /\ LET r == validate(proxy_response, request_data[1].dtype, args.operation,
                       expected.operation_result, expected.data, args.order, host)
     IN /\ verdict' = r.verdict
        /\ error' = r.error
        /\ pc' = IF r.verdict = "passed" THEN "passed" ELSE "failed"
  /\ UNCHANGED << args, host, promotion, executor, stream, proxy_url, extra, np_random, data, object_data,
                  compressed_size, bucket, expected, request_data, proxy_response >>

InitAxis == Start({PROXY_URL}, << None >>)

NextAxis ==
  \/ GenerateTestArray
  \/ GenerateObjectData
  \/ CreateTestS3Object
  \/ CalculateExpectedResult
  \/ BuildRequest
  \/ PostProxy
  \/ Validate

SpecAxis == InitAxis /\ [][NextAxis]_vars

\* The same with PROXY_URL = None: the response is mocked.
InitMock == Start({None}, << None >>)

NextMock ==
  \/ GenerateTestArray
  \/ GenerateObjectData
  \/ CreateTestS3Object
  \/ CalculateExpectedResult
  \/ BuildRequest
  \/ PostMock

SpecMock == InitMock /\ [][NextMock]_vars

\* ------------------------------------------------------------------------
\* Properties
\* ------------------------------------------------------------------------

\* generate_object_data has just returned.
Encoded == pc = "encoded"

\* calculate_expected_result has just run, and has returned.
Calculated == expected # NoExpected /\ request_data = << >>

Returned == Calculated /\ expected.error = None

\* The request has just been built.
Requested == pc = "requested"

\* The reference computation, step by step, from the generated array.
Reshaped == reshape(data, args.shape, args.order)

Masked == IF args.missing.cls # None THEN mask(args.missing, Reshaped) ELSE Reshaped

Sliced == IF args.selection # << >> THEN slice(Masked, args.selection) ELSE Masked

\* The reshape and the slicing of the case succeed.
WellShaped ==
  /\ ~reshape_raises(data, args.shape)
  /\ args.selection # << >> => ~slice_raises(Masked, args.selection)

\* The number of unmasked elements of an array, counted directly.
NumUnmasked(arr) == Cardinality({i \in DOMAIN arr.vals : ~arr.mask[i]})

\* C1: with no missing descriptor, no selection and no compression, the
\* reference computation ends with a result for every operation and dtype,
\* never in a failure, and the result is the operation applied to the
\* generated array reshaped to the requested shape and order.
C1_ReferenceResult ==
  (/\ Calculated
   /\ args.missing.cls = None /\ args.selection = << >> /\ args.compression = None
   /\ ~reshape_raises(data, args.shape))
  => /\ expected.error = None
     /\ expected.operation_result = OPERATION_FUNCS(args.operation, Reshaped, None)

\* C2: for every compression and filter list, with or without padding and
\* byte swap, decoding the object the encoder built (extract the payload,
\* reverse the compression, reverse the filters, swap back) returns the
\* bytes of the generated array in native order, bit for bit.
C2_RoundTrip ==
  Encoded =>
    decode(object_data, args.offset, << compressed_size >>, args.compression, args.filters,
           args.dtype, args.byte_order, host)
      = tobytes(data.vals, data.dtype, host, FALSE)

\* C2 witness: float32 with gzip, shuffle, an offset of 42 and 42 trailing
\* bytes has been encoded.
C2_Witness ==
  /\ Encoded
  /\ args.dtype = "float32" /\ args.compression = "gzip" /\ args.filters = << "shuffle" >>
  /\ args.offset = << 42 >> /\ args.trailing = << 42 >>
  /\ Len(object_data) > 84 + Len(data.vals) * 4

C10_MockAccepted ==
  (proxy_url = None /\ request_data # << >> /\ pc # "requested") =>
    /\ error = None
    /\ validate(proxy_response, request_data[1].dtype, args.operation,
                expected.operation_result, expected.data, args.order, host).verdict = "passed"

\* ------------------------------------------------------------------------
\* The order of the tests.  pytest runs the cases one after another in one
\* process, and other code may draw from numpy's global generator between
\* two calls of generate_test_array.
\* ------------------------------------------------------------------------

\* The most values the model lets other code draw from a seeded generator.
MaxPos == 6

\* The cases whose arrays the order of the tests is checked on.
OrderCases ==
  { Case("sum", dc[1], shape, << >>, "C", << >>, << >>, << >>, None, << >>,
         IF dc[2] = None THEN NoMissing ELSE create(dc[2], dc[1], "sum"), None) :
      dc \in {"int32", "float64"} \X ({None} \cup Range(MISSING_DATA)),
      shape \in {<< 3 >>, << 2, 2 >>} }

\* The global generator when the first call is made: never fresh.  Other
\* code has seeded it with 3, or has seeded it with 10 and drawn two values.
InitOrder ==
  StartFrom(OrderCases, {seed_state(3, 1), RngAfter(seed_state(10, 1), 2)}, {PROXY_URL},
            << >>)

\* np.random.rand(...) in other code: one more value is drawn from the
\* global generator.
OtherDraw ==
  /\ pc = "start"
  /\ np_random.pos < MaxPos
  /\ np_random' = RngAfter(np_random, 1)
  /\ UNCHANGED << pc, args, host, promotion, executor, stream, proxy_url, extra, data, object_data,
                  compressed_size, bucket, expected, error, request_data, proxy_response,
                  verdict >>

\* The next test of the same process is about to call generate_test_array:
\* the arguments are new, the global generator is as the last call left it.
NextCall ==
  /\ pc = "generated"
  /\ pc' = "start"
  /\ args' \in OrderCases
  /\ data' = NoArray
  /\ UNCHANGED << host, promotion, executor, stream, proxy_url, extra, np_random, object_data,
                  compressed_size, bucket, expected, error, request_data, proxy_response,
                  verdict >>

NextOrder ==
  \/ GenerateTestArray
  \/ OtherDraw
  \/ NextCall

SpecOrder == InitOrder /\ [][NextOrder]_vars

\* generate_test_array has just run: it has returned, or has raised.
Generated == pc = "generated" \/ (pc = "failed" /\ data = NoArray)

\* C12 as stated: a shape and a size that disagree (the size is not the
\* number of bytes of the shape's elements) end the generation in a failure
\* with no array; an array that is produced holds the product of the shape
\* when a shape is given, size / itemsize elements when only a size is
\* given, and 100 elements when neither is.
C12_ElementCount ==
  Generated =>
    LET w == itemsize(args.dtype)
    IN /\ (args.shape # << >> /\ args.size # << >> /\ prod(args.shape) * w # args.size[1])
            => (data = NoArray /\ error = "AssertionError")
       /\ data # NoArray =>
            IF args.shape # << >> THEN Len(data.vals) = prod(args.shape)
            ELSE IF args.size # << >> THEN Len(data.vals) * w = args.size[1]
            ELSE Len(data.vals) = 100

\* C12, as the code computes it: the size counts as given only when it is
\* not zero, and it is compared after the floor division by the item size.
C12_ElementCountFloor ==
  Generated =>
    LET w == itemsize(args.dtype)
        sized == args.size # << >> /\ args.size[1] # 0
    IN /\ (args.shape # << >> /\ sized /\ prod(args.shape) # args.size[1] \div w)
            <=> (data = NoArray /\ error = "AssertionError")
       /\ data # NoArray =>
            IF args.shape # << >> THEN Len(data.vals) = prod(args.shape)
            ELSE IF sized THEN Len(data.vals) = args.size[1] \div w
            ELSE Len(data.vals) = 100

\* C12 witness: a shape of two int32 elements with a size of 16 bytes has
\* ended the generation in an AssertionError, and no array was produced.
C12_Witness ==
  /\ pc = "failed" /\ error = "AssertionError" /\ data = NoArray
  /\ args.dtype = "int32" /\ args.shape = << 2 >> /\ args.size = << 16 >>

\* The indices of a dimension of length n that the standard slice
\* start:stop:step visits, each tested on its own: negative bounds count
\* from the end, the walk starts at the first index of the dimension at or
\* after the start (at or before it for a negative step) and stops short of
\* the stop.
StandardSliceIndices(sl, n) ==
  LET b == IF sl[1] < 0 THEN sl[1] + n ELSE sl[1]
      e == IF sl[2] < 0 THEN sl[2] + n ELSE sl[2]
      first == IF sl[3] > 0 THEN (IF b < 0 THEN 0 ELSE b)
               ELSE (IF b > n - 1 THEN n - 1 ELSE b)
  IN { i \in 0..(n - 1) :
         IF sl[3] > 0 THEN i >= first /\ i < e /\ (i - first) % sl[3] = 0
         ELSE i <= first /\ i > e /\ (first - i) % (-sl[3]) = 0 }

OutOfRange(sl, n) == sl[1] \notin (-n)..n \/ sl[2] \notin (-n - 1)..n

\* The selection of the case does not fit the array: the number of slices
\* is not the number of dimensions, or a bound lies outside its dimension.
MalformedSelection ==
  /\ args.selection # << >>
  /\ \/ Len(args.selection) # Len(Masked.shape)
     \/ \E d \in DOMAIN args.selection :
          d <= Len(Masked.shape) /\ OutOfRange(args.selection[d], Masked.shape[d])

C15_Mean ==
  (Calculated /\ args.operation = "mean" /\ WellShaped) =>
    /\ expected.error = None
    /\ expected.operation_result.dtype = args.dtype
    /\ kind(args.dtype) \in {"i", "u"} =>
         expected.operation_result.vals =
           << SumSeq(Sliced.vals, Len(Sliced.vals)) \div Len(Sliced.vals) >>

\* C15, as the code behaves: the operation table has no entry mean, and the
\* reference computation of a mean ends in a KeyError.
C15_MeanUnsupported ==
  (Calculated /\ args.operation = "mean" /\ WellShaped) => expected.error = "KeyError"

\* C15 witness: the reference computation of the mean of three int32
\* elements has ended in a KeyError.
C15_Witness ==
  /\ Calculated /\ args.operation = "mean" /\ args.dtype = "int32"
  /\ Len(data.vals) = 3 /\ expected.error = "KeyError"

\* C16 as stated, the failure: the reference computation of a max or min
\* over selected elements that are all masked ends in a failure.
C16_AllMaskedFails ==
  (/\ Calculated /\ WellShaped /\ args.operation \in {"max", "min"}
   /\ Sliced.vals # << >> /\ NumUnmasked(Sliced) = 0)
    => expected.error # None

\* C16, the extremum: a max (min) that is returned over selected elements
\* that are not all masked has the input dtype and is the value of an
\* unmasked element that no unmasked element exceeds (is below).
C16_ExtremumUnmasked ==
  (Returned /\ args.operation \in {"max", "min"} /\ NumUnmasked(Sliced) > 0) =>
    /\ expected.operation_result.dtype = args.dtype
    /\ expected.operation_result.shape = << >>
    /\ \E i \in DOMAIN Sliced.vals :
         /\ ~Sliced.mask[i]
         /\ expected.operation_result.vals = << Sliced.vals[i] >>
         /\ \A j \in DOMAIN Sliced.vals :
              ~Sliced.mask[j] =>
                IF args.operation = "max" THEN Sliced.vals[j] <= Sliced.vals[i]
                ELSE Sliced.vals[j] >= Sliced.vals[i]

\* C16 witness: a max has been returned that a masked element exceeds.
C16_Witness ==
  /\ Returned /\ args.operation = "max" /\ NumUnmasked(Sliced) > 0
  /\ \E j \in DOMAIN Sliced.vals :
       Sliced.mask[j] /\ Sliced.vals[j] > expected.operation_result.vals[1]

\* The payload of the object that generate_object_data has built.
Payload == SubSeq(object_data, OrZero(args.offset) + 1, OrZero(args.offset) + compressed_size)

\* The bytes of the generated array as generate_object_data hands them to
\* filter_pipeline.
DataBytes ==
  tobytes(data.vals, data.dtype, host, args.byte_order # None /\ args.byte_order # host)

\* C17: with a compression other than gzip and zlib, or a filter other than
\* shuffle, the run ends in the AssertionError of filter_pipeline and no
\* object is ever built or uploaded; the payload of an object that is built
\* is the filtered bytes themselves or one gzip or one zlib compression of
\* them, never a compression of a compression.
C17_UnknownAlgorithm ==
  LET unknown == \/ args.compression \notin {None, "gzip", "zlib"}
                 \/ \E i \in DOMAIN args.filters : args.filters[i] # "shuffle"
      filtered == ApplyFilters(DataBytes, args.filters, Len(args.filters), itemsize(args.dtype))
  IN /\ unknown =>
          /\ object_data = << >> /\ bucket = << >>
          /\ pc \in {"start", "generated", "failed"}
          /\ pc = "failed" => error = "AssertionError" /\ data # NoArray
     /\ Encoded =>
          Payload \in ({filtered, zlib_compress(filtered)}
                         \cup {gzip_compress(filtered, mtime) : mtime \in 0..(NumClocks - 1)})

\* C17 witness: a run with the compression lz4 has ended in the
\* AssertionError of filter_pipeline, after the array was generated and
\* with nothing uploaded.
C17_Witness ==
  /\ pc = "failed" /\ error = "AssertionError" /\ args.compression = "lz4"
  /\ data # NoArray /\ object_data = << >> /\ bucket = << >>

\* C20: the object is built in one order: the array is byte-swapped (when
\* the byte order asked for is not the host's) and serialised, the filters
\* are applied to these bytes in listed order, the compression is applied
\* to the filtered bytes, and the random padding is put around the result
\* as it is; the size returned is the length of the compressed bytes.
C20_EncoderOrder ==
  Encoded =>
    \E mtime \in 0..(NumClocks - 1), padseed \in 1..NumPads :
      LET filtered == ApplyFilters(DataBytes, args.filters, Len(args.filters),
                                   itemsize(args.dtype))
          compressed == IF args.compression = "gzip" THEN gzip_compress(filtered, mtime)
                        ELSE IF args.compression = "zlib" THEN zlib_compress(filtered)
                        ELSE filtered
      IN /\ object_data = urandom(OrZero(args.offset), padseed) \o compressed
                             \o urandom(OrZero(args.trailing), padseed + 1)
         /\ compressed_size = Len(compressed)

\* C20 witness: an int32 array has been encoded on a little-endian host
\* with the byte order big, the filter shuffle, the compression zlib, three
\* bytes before the payload and five after it; the bytes the compression
\* stores are the shuffled bytes of the swapped array, which are neither
\* the bytes of the array nor their shuffle.
C20_Witness ==
  /\ Encoded /\ host = "little" /\ args.byte_order = "big"
  /\ args.filters = << "shuffle" >> /\ args.compression = "zlib"
  /\ args.offset = << 3 >> /\ args.trailing = << 5 >>
  /\ LET native == tobytes(data.vals, data.dtype, host, FALSE)
         stored == SubSeq(Payload, 8, 7 + Len(native))
     IN /\ stored = Shuffle(DataBytes, 4)
        /\ stored # Shuffle(native, 4)
        /\ stored # native
  /\ Len(object_data) = 3 + compressed_size + 5

\* C11: the array generate_test_array returns depends only on its
\* arguments: whatever the global generator held when it was called (a
\* fresh process, another seed, draws by other code, an earlier test), the
\* array is the one a fresh process generates for the same arguments, and
\* the generator is left as a fresh process leaves it.
C11_ReseededEveryCall ==
  pc = "generated" =>
    /\ data = generate_test_array(FreshGenerator, args.dtype, args.shape, args.size,
                                  args.missing, stream)
    /\ np_random = RngAfter(seed_state(10, stream),
                            num_elements(args.dtype, args.shape, args.size))

\* C11 witness: an array with holes has been generated (under SpecOrder
\* every call finds a generator that other code or an earlier call has
\* used), equal to the array of a fresh process.
C11_Witness ==
  /\ pc = "generated"
  /\ args.missing.cls # None
  /\ \E i \in DOMAIN data.vals : data.vals[i] \in Range(fill_values(args.missing, args.dtype))
  /\ data = generate_test_array(FreshGenerator, args.dtype, args.shape, args.size,
                                args.missing, stream)


\* ------------------------------------------------------------------------
\* The error tests (src/compliance/test_error_response.py): each sends one
\* request that the proxy must refuse and asserts on the refusal.
\* ------------------------------------------------------------------------

NumErrors == 2     \* the messages the body of an error response may list

\* The tests: the name, the status asserted, and whether the test first
\* looks up the key of an object that exists.
ErrorTests ==
  { [test |-> "test_nonexistent_file", status_code |-> 404, lists |-> FALSE] }
  \cup { [test |-> name, status_code |-> 400, lists |-> TRUE] :
           name \in {"test_invalid_operation", "test_invalid_dtype", "test_invalid_offset",
                     "test_invalid_size", "test_invalid_shape", "test_invalid_selection",
                     "test_invalid_ordering"} }

RECURSIVE Messages(_)
\* The text of a JSON list of n messages, without the brackets.
Messages(n) ==
  IF n = 0 THEN << >>
  ELSE IF n = 1 THEN << "\"", "e", "\"" >>
  ELSE Messages(n - 1) \o << ",", " ", "\"", "e", "\"" >>

\* json.dumps({"errors": [...]}).encode() for n messages.
ErrorBody(n) ==
  << "{", "\"", "e", "r", "r", "o", "r", "s", "\"", ":", " ", "[" >> \o Messages(n)
    \o << "]", "}" >>

NoErrorResponse ==
  [status_code |-> 0, content |-> << >>, content_type |-> << >>, content_length |-> << >>]

\* What the proxy may answer: an error in the format of the protocol (JSON
\* with a list of errors), with or without a content-length header; an
\* error with no body; a success.
ErrorResponses ==
  { [status_code |-> status_code, content |-> ErrorBody(n),
     content_type |-> << "application/json" >>,
     content_length |-> IF sized THEN << str(Len(ErrorBody(n))) >> ELSE << >>] :
      status_code \in {400, 404}, n \in 0..NumErrors, sized \in BOOLEAN }
  \cup
  { [status_code |-> status_code, content |-> << >>, content_type |-> << >>,
     content_length |-> << str(0) >>] : status_code \in {400, 404} }
  \cup
  { [status_code |-> 200, content |-> << 0, 0, 0, 0 >>,
     content_type |-> << "application/octet-stream" >>, content_length |-> << str(4) >>] }

\* MockErrorResponse(status_code): as in MockResponse, the headers are built
\* from self.content before BaseMockResponse.__init__ has assigned it.
MockErrorResponse(status_code) ==
  LET self == NewObject
      content == ErrorBody(0)
  IN IF "content" \notin self
     THEN [error |-> "AttributeError", response |-> NoErrorResponse]
     ELSE [error |-> None,
           response |-> [status_code |-> status_code, content |-> content,
                         content_type |-> << "application/json" >>,
                         content_length |-> << str(Len(content)) >>]]

\* Python values, with their types: a str and an int.
PyStr(text) == [type |-> "str", value |-> text]

PyInt(n) == [type |-> "int", value |-> str(n)]

\* a == b in Python: values of the types str and int are equal when they
\* have the same type and the same value.
PyEq(a, b) == a.type = b.type /\ a.value = b.value

\* The assertions of an error test on the response.
check_error_response(response, status_code) ==
  LET fail(at, e) == [verdict |-> at, error |-> e]
  IN IF response.status_code # status_code THEN fail("status_code", "AssertionError")
     ELSE IF response.content_length = << >> THEN fail("content_length", "KeyError")
     ELSE IF ~PyEq(PyStr(response.content_length[1]), PyInt(0))
     THEN fail("content_length", "AssertionError")
     ELSE [verdict |-> "passed", error |-> None]

\* The state before an error test runs: the bucket is empty or holds one
\* object of an earlier test.
InitError ==
  /\ pc = "start"
  /\ args \in ErrorTests
  /\ host = "little"
  /\ promotion \in Promotions
  /\ executor = << >>
  /\ stream = 1
  /\ proxy_url \in {PROXY_URL, None}
  /\ extra = << >>
  /\ np_random = FreshGenerator
  /\ data = NoArray
  /\ object_data = << >>
  /\ compressed_size = 0
  /\ bucket \in {<< >>, << [key |-> "object", body |-> << 0, 0, 0, 0 >>] >>}
  /\ expected = NoExpected
  /\ error = None
  /\ request_data = << >>
  /\ proxy_response = NoErrorResponse
  /\ verdict = None

\* test_nonexistent_file: the name is a fresh uuid, and fetch_from_s3 must
\* raise FileNotFoundError for it.
FetchFromS3 ==
  /\ pc = "start"
  /\ ~args.lists
  /\ LET uuid4 == "uuid4"
     IN IF \E i \in DOMAIN bucket : bucket[i].key = uuid4
        THEN /\ pc' = "failed"
             /\ error' = "Failed"
             /\ request_data' = request_data
        ELSE /\ pc' = "named"
             /\ error' = error
             /\ request_data' = << [source |-> uuid4] >>
  /\ UNCHANGED << args, host, promotion, executor, stream, proxy_url, extra, np_random, data, object_data,
                  compressed_size, bucket, expected, proxy_response, verdict >>

\* The other tests: the key of the first object of the bucket; the listing
\* of an empty bucket has no 'Contents'.
ListObjects ==
  /\ pc = "start"
  /\ args.lists
  /\ IF bucket = << >>
     THEN /\ pc' = "failed"
          /\ error' = "KeyError"
          /\ request_data' = request_data
     ELSE /\ pc' = "named"
          /\ error' = error
          /\ request_data' = << [source |-> bucket[1].key] >>
  /\ UNCHANGED << args, host, promotion, executor, stream, proxy_url, extra, np_random, data, object_data,
                  compressed_size, bucket, expected, proxy_response, verdict >>

\* requests.post(...) with PROXY_URL set: the proxy answers.
PostError ==
  /\ pc = "named"
  /\ proxy_url # None
  /\ proxy_response' \in ErrorResponses
  /\ pc' = "answered"
  /\ UNCHANGED << args, host, promotion, executor, stream, proxy_url, extra, np_random, data, object_data,
                  compressed_size, bucket, expected, error, request_data, verdict >>

\* requests.post(...) with PROXY_URL = None: the monkeypatched post calls
\* MockResponse(status_code=..., operation_result=np.array([])), which has
\* three parameters without a default.
PostErrorMock ==
  /\ pc = "named"
  /\ proxy_url = None
  /\ pc' = "failed"
  /\ LET required == {"status_code", "array_data", "operation_result"}
         passed == {"status_code", "operation_result"}
     IN error' = IF required \ passed # {} THEN "TypeError" ELSE "AttributeError"
  /\ UNCHANGED << args, host, promotion, executor, stream, proxy_url, extra, np_random, data, object_data,
                  compressed_size, bucket, expected, request_data, proxy_response,
                  verdict >>

\* The assertions on the response.
CheckErrorResponse ==
  /\ pc = "answered"
  /\ LET r == check_error_response(proxy_response, args.status_code)
     IN /\ verdict' = r.verdict
        /\ error' = r.error
        /\ pc' = IF r.verdict = "passed" THEN "passed" ELSE "failed"
  /\ UNCHANGED << args, host, promotion, executor, stream, proxy_url, extra, np_random, data, object_data,
                  compressed_size, bucket, expected, request_data, proxy_response >>

NextError ==
  \/ FetchFromS3
  \/ ListObjects
  \/ PostError
  \/ PostErrorMock
  \/ CheckErrorResponse

SpecError == InitError /\ [][NextError]_vars

\* An error response in the format of the protocol: status 400 or 404,
\* content-type application/json, a JSON body with a list of errors.
ProtocolFormat(response) ==
  /\ response.status_code \in {400, 404}
  /\ response.content_type = << "application/json" >>
  /\ \E n \in 0..NumErrors : response.content = ErrorBody(n)

\* C18 as stated: an error test whose request was answered by an error
\* response in the format of the protocol, with the status the test asserts
\* and its content-length header, passes; with PROXY_URL = None the mocked
\* error response (MockErrorResponse) is in that format and the test passes.
C18_ErrorResponseAccepted ==
  /\ (/\ pc \in {"passed", "failed"} /\ proxy_response # NoErrorResponse
      /\ ProtocolFormat(proxy_response)
      /\ proxy_response.status_code = args.status_code
      /\ proxy_response.content_length # << >>)
       => pc = "passed"
  /\ (proxy_url = None /\ request_data # << >> /\ pc # "named") =>
       /\ pc = "passed"
       /\ MockErrorResponse(args.status_code).error = None
       /\ ProtocolFormat(MockErrorResponse(args.status_code).response)

\* C18, as the code behaves: no error test passes.  A response in the
\* format of the protocol ends the test in an AssertionError, on the status
\* or on the content-length header, which is a str and is compared with the
\* int 0, or in a KeyError for a response without that header; with
\* PROXY_URL = None the call of MockResponse raises TypeError.
C18_ErrorTestsFail ==
  /\ pc # "passed"
  /\ (pc = "failed" /\ proxy_response # NoErrorResponse /\ ProtocolFormat(proxy_response))
       => /\ error \in {"AssertionError", "KeyError"}
          /\ verdict \in {"status_code", "content_length"}
  /\ (pc = "failed" /\ proxy_url = None /\ request_data # << >>) => error = "TypeError"

\* C18 witness: test_invalid_dtype was answered 400 with application/json
\* and the body {"errors": ["e"]}, and has failed on the content-length.
C18_Witness ==
  /\ pc = "failed" /\ args.test = "test_invalid_dtype"
  /\ proxy_response.status_code = 400 /\ ProtocolFormat(proxy_response)
  /\ proxy_response.content = ErrorBody(1)
  /\ proxy_response.content_length = << << "1", "7" >> >>
  /\ verdict = "content_length" /\ error = "AssertionError"


\* ------------------------------------------------------------------------
\* The descriptors cls.create returns (src/compliance/missing.py), applied
\* to arrays with holes: the mask and the operation are functions of the
\* array alone, and the arrays are drawn from all those make_holes can leave
\* behind, whatever its random masks.
\* ------------------------------------------------------------------------

MaxLen == 4        \* the longest array with holes

\* The arrays of n elements that the descriptor's make_holes can return:
\* every element is a generated value (some values of [0, 10), in the unit
\* of the dtype) or a fill value, and every fill value has been written at
\* least once.
HoledArrays(missing, dtype, n) ==
  LET fills == Range(fill_values(missing, dtype))
      values == IF kind(dtype) = "f" THEN {15, 70} ELSE {0, 1, 9}
  IN { [dtype |-> dtype, shape |-> << n >>, vals |-> vals, mask |-> [i \in 1..n |-> FALSE]] :
         vals \in { v \in [1..n -> values \cup fills] :
                      \A f \in fills : \E i \in 1..n : v[i] = f } }

\* An array with holes has been generated for a descriptor that
\* missing_cls.create(np.dtype(dtype), operation) returned, for one dtype of
\* each kind.
InitCreate ==
  /\ pc = "holed"
  /\ \E oc \in {p \in {"sum", "count", "min", "max"} \X Range(MISSING_DATA) :
                 ~Skipped(p[1], p[2])},
        dtype \in {"int32", "uint32", "float64"}, n \in 1..MaxLen :
       /\ args = Case(oc[1], dtype, << n >>, << >>, "C", << >>, << >>, << >>, None, << >>,
                      create(oc[2], dtype, oc[1]), None)
       /\ data \in HoledArrays(create(oc[2], dtype, oc[1]), dtype, n)
  /\ host = "little"
  /\ promotion \in Promotions
  /\ executor = << >>
  /\ stream = 1
  /\ proxy_url = PROXY_URL
  /\ extra = << None >>
  /\ np_random = FreshGenerator
  /\ object_data = << >>
  /\ compressed_size = 0
  /\ bucket = << >>
  /\ expected = NoExpected
  /\ error = None
  /\ request_data = << >>
  /\ proxy_response = NoResponse
  /\ verdict = None

\* The operation before the mask and after it: unmasked_result =
\* perform_operation(data, operation); data = missing.mask(data);
\* operation_result = perform_operation(data, operation).
MaskAndOperate ==
  /\ pc = "holed"
  /\ pc' = "applied"
  /\ LET masked_data == mask(args.missing, data)
     IN expected' = [error |-> None, data |-> masked_data,
                     operation_result |-> perform_operation(masked_data, args.operation, extra),
                     unmasked_result |-> perform_operation(data, args.operation, extra),
                     unselected_result |-> NoArray]
  /\ UNCHANGED << args, host, promotion, executor, stream, proxy_url, extra, np_random, data, object_data,
                  compressed_size, bucket, error, request_data, proxy_response, verdict >>

NextCreate == MaskAndOperate

SpecCreate == InitCreate /\ [][NextCreate]_vars

\* Two results differ: they are not the same number, or one of them is the
\* masked constant and the other is not.
Differs(a, b) == ~array_equal(a, b) \/ a.mask # b.mask

\* C19 as stated: for every descriptor that create returns, every dtype
\* kind and every operation among sum, count, min and max but the skipped
\* pairs, the operation on an array that holds at least one hole of each
\* sentinel gives another result after the mask than before it.
C19_CreateAffectsResult ==
  pc = "applied" => Differs(expected.operation_result, expected.unmasked_result)

\* C19, the part the code keeps for arrays of up to MaxLen elements: the
\* result after the mask is another than before it for count, min and max,
\* for the sum of integers, and for the float sum with the descriptors
\* MissingValue and ValidMax, whose holes cannot cancel.
C19_CreateAffectsExactResult ==
  (/\ pc = "applied"
   /\ ~(/\ args.operation = "sum" /\ kind(args.dtype) = "f"
        /\ args.missing.cls \in {"MissingValues", "ValidMin", "ValidRange"}))
    => Differs(expected.operation_result, expected.unmasked_result)

\* C19 witness: the float sum over an array with one hole -1e20 and one hole
\* 1e20 that do not follow each other at the start: the first number is
\* swallowed by the hole, and the sum is another than the sum of the
\* unmasked numbers.
C19_Witness ==
  /\ pc = "applied" /\ args.operation = "sum" /\ args.missing.cls = "MissingValues"
  /\ data.vals = << 15, -HugeF, HugeF, 70 >>
  /\ expected.unmasked_result.vals = << 70 >>
  /\ expected.operation_result.vals = << 85 >>


\* ------------------------------------------------------------------------
\* The order of the reference computation, the holes, the shared bucket
\* ------------------------------------------------------------------------

NumHoleStreams == 40   \* the random streams the masks are drawn from

\* generate_test_array is about to be called with the missing descriptor
\* that a class creates for a dtype and an operation, for an array of eight
\* elements; the generators produce one of NumHoleStreams streams.
InitHoles ==
  /\ pc = "start"
  /\ \E dtype \in DTYPES, cls \in Range(MISSING_DATA), operation \in {"sum", "min", "max"} :
       args = Case(operation, dtype, << 8 >>, << >>, "C", << >>, << >>, << >>, None, << >>,
                   create(cls, dtype, operation), None)
  /\ host = "little"
  /\ promotion \in Promotions
  /\ executor = << >>
  /\ stream \in 1..NumHoleStreams
  /\ proxy_url = PROXY_URL
  /\ extra = << >>
  /\ np_random = FreshGenerator
  /\ data = NoArray
  /\ object_data = << >>
  /\ compressed_size = 0
  /\ bucket = << >>
  /\ expected = NoExpected
  /\ error = None
  /\ request_data = << >>
  /\ proxy_response = NoResponse
  /\ verdict = None

NextHoles == GenerateTestArray

SpecHoles == InitHoles /\ [][NextHoles]_vars

\* The masks make_holes draws for the generated array that select its
\* element i: the f-th of k masks selects it when the draw for it is below
\* p_missing / k = 0.2 / k.
MasksSelecting(i) ==
  LET k == Len(fill_values(args.missing, args.dtype))
      n == num_elements(args.dtype, args.shape, args.size)
  IN {f \in 1..k : Draw(default_rng(10, stream), (f - 1) * n + i) * 10 * k < 2 * 20}

\* C22: the array generated with a missing descriptor of k fill values has
\* the shape and the number of elements of the array generated without it;
\* an element that none of the k masks selects holds the value generated
\* for it, and an element that masks select holds the fill value of the last
\* of them in list order.
C22_MakeHoles ==
  (pc = "generated" /\ args.missing.cls # None) =>
    LET fills == fill_values(args.missing, args.dtype)
        original == generate_test_array(FreshGenerator, args.dtype, args.shape, args.size,
                                        NoMissing, stream)
    IN /\ data.shape = original.shape /\ data.dtype = original.dtype
       /\ Len(data.vals) = Len(original.vals)
       /\ \A i \in DOMAIN original.vals :
            data.vals[i] = IF MasksSelecting(i) = {} THEN original.vals[i]
                           ELSE fills[MaxOf(MasksSelecting(i))]

\* C22 witness: an array has been generated with two fill values; one
\* element was selected by both masks and holds the second fill value,
\* one by the first mask alone, and one by none.
C22_Witness ==
  /\ pc = "generated" /\ args.missing.cls # None
  /\ Len(fill_values(args.missing, args.dtype)) = 2
  /\ \E i \in DOMAIN data.vals :
       /\ MasksSelecting(i) = {1, 2}
       /\ data.vals[i] = fill_values(args.missing, args.dtype)[2]
  /\ \E i \in DOMAIN data.vals :
       /\ MasksSelecting(i) = {1}
       /\ data.vals[i] = fill_values(args.missing, args.dtype)[1]
  /\ \E i \in DOMAIN data.vals : MasksSelecting(i) = {}

\* Whether an array of the dtype can hold the number v: an integer of the
\* sign and of 32 bits (the bounds are halved and quartered to stay within
\* the integers of the model checker; a dtype of 64 bits holds more), or a
\* float up to 1e20, which is below the largest float32.
Representable(v, dtype) ==
  CASE kind(dtype) = "i" -> -Pow(2, 30) <= v \div 2 /\ v \div 2 < Pow(2, 30)
    [] kind(dtype) = "u" -> 0 <= v /\ v \div 4 < Pow(2, 30)
    [] OTHER -> Abs(v) <= HugeF

\* The elements of the generated array that make_holes has written.
Holes == {i \in DOMAIN data.vals : MasksSelecting(i) # {}}

\* The generated array holds a float32 copy of 1e20 that numpy compares
\* with the float64 numbers of MissingValues.
RoundedSentinel ==
  /\ args.missing.cls = "MissingValues"
  /\ args.dtype = "float32"
  /\ promotion = "nep50"

\* C23: every element that make_holes has written is a fill value of the
\* descriptor that create returned, is a number of the array's dtype and is
\* masked by the mask of the same descriptor.
C23_InjectionMasked ==
  (pc = "generated" /\ args.missing.cls # None) =>
    \A i \in Holes :
      /\ data.vals[i] \in Range(fill_values(args.missing, args.dtype))
      /\ Representable(data.vals[i], args.dtype)
      /\ is_missing(args.missing, data.vals[i], args.dtype)

\* C23, as the code has it: the same for every descriptor and dtype but
\* MissingValues on float32 under a numpy that compares in float64, where
\* the mask of the descriptor masks none of the elements written.
C23_InjectionMaskedExact ==
  (pc = "generated" /\ args.missing.cls # None) =>
    \A i \in Holes :
      /\ data.vals[i] \in Range(fill_values(args.missing, args.dtype))
      /\ Representable(data.vals[i], args.dtype)
      /\ is_missing(args.missing, data.vals[i], args.dtype) <=> ~RoundedSentinel
      /\ mask(args.missing, data).mask[i] <=> ~RoundedSentinel

C23_Witness ==
  /\ pc = "generated" /\ RoundedSentinel
  /\ \E i, j \in Holes : data.vals[i] = HugeF /\ data.vals[j] = -HugeF
  /\ \A i \in DOMAIN data.vals : ~mask(args.missing, data).mask[i]

\* The cases that run in parallel: the same array with gzip and with zlib
\* behind the same padding.
SharedCases ==
  { Case("sum", "int32", << 2 >>, << >>, "C", << 3 >>, << >>, << 5 >>, compression,
         << "shuffle" >>, NoMissing, "big") : compression \in {"gzip", "zlib"} }

\* The state before test_basic_operation runs one of the cases, on a host
\* whose bucket is empty.
InitShared ==
  /\ pc = "start"
  /\ args \in SharedCases
  /\ host = "little"
  /\ promotion \in Promotions
  /\ executor = << >>
  /\ stream \in 1..NumStreams
  /\ proxy_url = PROXY_URL
  /\ extra = << None >>
  /\ np_random = FreshGenerator
  /\ data = NoArray
  /\ object_data = << >>
  /\ compressed_size = 0
  /\ bucket = << >>
  /\ expected = NoExpected
  /\ error = None
  /\ request_data = << >>
  /\ proxy_response = NoResponse
  /\ verdict = None

\* Another test case, in a process of its own on the same host, runs
\* create_test_data up to the upload of its object, at any moment of this
\* case's run.
ParallelCase ==
  /\ \E a \in SharedCases :
     \E padseed \in 1..(IF OrZero(a.offset) + OrZero(a.trailing) > 0 THEN NumPads ELSE 1),
        mtime \in 0..(IF a.compression = "gzip" THEN NumClocks - 1 ELSE 0) :
       LET array == generate_test_array(FreshGenerator, a.dtype, a.shape, a.size, a.missing,
                                        stream)
           r == generate_object_data(array, a.offset, a.trailing, a.compression, a.filters,
                                     a.dtype, a.byte_order, host, mtime, padseed)
       IN bucket' = upload_to_s3(bucket, r[1], filename(a))
  /\ UNCHANGED << pc, args, host, promotion, executor, stream, proxy_url, extra, np_random, data,
                  object_data, compressed_size, expected, error, request_data,
                  proxy_response, verdict >>

NextShared ==
  \/ GenerateTestArray
  \/ GenerateObjectData
  \/ CreateTestS3Object
  \/ CalculateExpectedResult
  \/ BuildRequest
  \/ ParallelCase

SpecShared == InitShared /\ [][NextShared]_vars

\* The object has been uploaded, by this case.
Uploaded == pc \in {"uploaded", "calculated", "requested"}

\* The body of the object that the bucket holds under the key of this case.
Stored == (CHOOSE o \in Range(bucket) : o.key = filename(args)).body

\* The payload of the object of the bucket at the offset and with the
\* length that this case requests.
StoredPayload == extract(Stored, OrZero(args.offset), << compressed_size >>)

\* C24: once a case has uploaded its object, the object that the bucket
\* holds under its key, whichever case wrote it last, has the payload that
\* the case encoded, at the same offset and with the same length.
C24_SamePayload ==
  Uploaded =>
    /\ \E o \in Range(bucket) : o.key = filename(args)
    /\ Len(Stored) = Len(object_data)
    /\ StoredPayload = Payload

\* C24, amended: the object that the bucket holds under the key of the
\* case is as long as the one the case encoded, its payload has the same
\* length at the same offset and decodes to the array of the case; the
\* payload is the same but for the time stamp of a gzip member (the bytes
\* 5 and 6 of the member in the model).
C24_SameArray ==
  Uploaded =>
    /\ \E o \in Range(bucket) : o.key = filename(args)
    /\ Len(Stored) = Len(object_data)
    /\ Len(StoredPayload) = compressed_size
    /\ decode(Stored, args.offset, << compressed_size >>, args.compression, args.filters,
              args.dtype, args.byte_order, host)
         = tobytes(data.vals, data.dtype, host, FALSE)
    /\ \A i \in 1..compressed_size :
         StoredPayload[i] # Payload[i] => args.compression = "gzip" /\ i \in {5, 6}

\* C24 witness: the request of a case has been built while the bucket
\* holds, under its key, an object that another case wrote, with another
\* padding and another time stamp, beside the object of another key.
C24_Witness ==
  /\ pc = "requested"
  /\ Len(bucket) > 1
  /\ Stored # object_data
  /\ StoredPayload # Payload
  /\ SubSeq(Stored, 1, OrZero(args.offset)) # SubSeq(object_data, 1, OrZero(args.offset))

\* ------------------------------------------------------------------------
\* The parallel benchmark (src/scripts/run-parallel-benchmarks.py).  pc is
\* where main is, data the array X of the size in hand, bucket the bucket
\* benchmark-data, and executor the tasks of the pool: a task is
\* [state, expected_ans, content], pending, running, read (the object has
\* been read), done or raised.
\* ------------------------------------------------------------------------

NumDims == 2        \* the sizes of SQUARE_DIMS
RequestCount == 3   \* request_count
Workers == 2        \* workers
NumSeeds == 2       \* the seeds the operating system may give numpy

\* As all_finished, but main goes on without the results.
all_finished_unawaited(tasks) == TRUE

\* Every result of executor.map has been obtained.
all_finished(tasks) == \A t \in DOMAIN tasks : tasks[t].state \in {"done", "raised"}

InitBenchmark ==
  /\ pc = "loop"
  /\ args = [workers |-> Workers, request_count |-> RequestCount]
  /\ host \in {"little", "big"}
  /\ promotion \in Promotions
  /\ executor = << >>
  /\ stream \in 1..NumStreams
  /\ proxy_url = PROXY_URL
  /\ extra = << None >>
  /\ np_random \in {seed_state(seed, stream) : seed \in 1..NumSeeds}
  /\ data = NoArray
  /\ object_data = << >>
  /\ compressed_size = 0
  /\ bucket \in {<< >>, << [key |-> "test-data.dat", body |-> << 0, 0, 0, 0 >>] >>}
  /\ expected = NoExpected
  /\ error = None
  /\ request_data = << >>
  /\ proxy_response = NoResponse
  /\ verdict = None

\* for N in SQUARE_DIMS: X = np.random.rand(N, N).astype("float32") (in
\* tenths, rounded down to a multiple of 0.5, which the model's float32
\* holds), and the file is opened and written; s3fs keeps the bytes until
\* the file is closed.
WriteFile ==
  /\ pc = "loop"
  /\ LET N == data.shape[1] + 1
     IN IF N > NumDims
        THEN /\ pc' = "returned"
             /\ UNCHANGED << data, object_data, np_random >>
        ELSE /\ pc' = "writing"
             /\ data' = [dtype |-> "float32", shape |-> << N, N >>,
                         vals |-> [i \in 1..(N * N) |-> 5 * (Draw(np_random, i) \div 10)],
                         mask |-> [i \in 1..(N * N) |-> FALSE]]
             /\ np_random' = RngAfter(np_random, N * N)
             /\ object_data' = tobytes(data'.vals, "float32", host, FALSE)
  /\ UNCHANGED << args, host, promotion, executor, stream, proxy_url, extra, compressed_size,
                  bucket, expected, error, request_data, proxy_response, verdict >>

\* The end of the with block: the file is closed and the object replaced.
CloseFile ==
  /\ pc = "writing"
  /\ pc' = "uploaded"
  /\ bucket' = upload_to_s3(bucket, object_data, "test-data.dat")
  /\ request_data' = << [object |-> "test-data.dat", dtype |-> data.dtype] >>
  /\ UNCHANGED << args, host, promotion, executor, stream, proxy_url, extra, np_random, data,
                  object_data, compressed_size, expected, error, proxy_response, verdict >>

\* executor.map(sum_without_proxy, ...) in a new pool: request_count tasks,
\* each with X.sum() (numpy's sum of the float32 elements).
SubmitNoProxy ==
  /\ pc = "uploaded"
  /\ pc' = "no-proxy"
  /\ executor' = [t \in 1..args.request_count |->
                    [state |-> "pending", expected_ans |-> pairwise_sum(data.vals), content |-> << >>]]
  /\ UNCHANGED << args, host, promotion, stream, proxy_url, extra, np_random, data, object_data,
                  compressed_size, bucket, expected, error, request_data, proxy_response,
                  verdict >>

\* executor.map(sum_with_proxy, ...) in a new pool, for the one proxy of
\* PROXY_URLS.
SubmitProxy ==
  /\ pc = "no-proxy-done"
  /\ pc' = "proxy"
  /\ executor' = [t \in 1..args.request_count |->
                    [state |-> "pending", expected_ans |-> pairwise_sum(data.vals), content |-> << >>]]
  /\ UNCHANGED << args, host, promotion, stream, proxy_url, extra, np_random, data, object_data,
                  compressed_size, bucket, expected, error, request_data, proxy_response,
                  verdict >>

\* A process of the pool takes a task; at most `workers` of them run.
StartTask ==
  /\ \E t \in DOMAIN executor :
       /\ executor[t].state = "pending"
       /\ Cardinality({u \in DOMAIN executor : executor[u].state \in {"running", "read"}})
            < args.workers
       /\ executor' = [executor EXCEPT ![t].state = "running"]
  /\ UNCHANGED << pc, args, host, promotion, stream, proxy_url, extra, np_random, data,
                  object_data, compressed_size, bucket, expected, error, request_data,
                  proxy_response, verdict >>

\* file.read() of sum_without_proxy, or the proxy's read of the object for
\* sum_with_proxy: the object as the bucket holds it at that moment.
ReadObject ==
  /\ \E t \in DOMAIN executor :
       /\ executor[t].state = "running"
       /\ \E o \in Range(bucket) :
            /\ o.key = request_data[1].object
            /\ executor' = [executor EXCEPT ![t].state = "read", ![t].content = o.body]
  /\ UNCHANGED << pc, args, host, promotion, stream, proxy_url, extra, np_random, data,
                  object_data, compressed_size, bucket, expected, error, request_data,
                  proxy_response, verdict >>

\* The sum of the array read, and np.isclose(result, expected_ans); the
\* task raises when they differ.
CompareSum ==
  /\ \E t \in DOMAIN executor :
       /\ executor[t].state = "read"
       /\ LET arr == frombuffer(executor[t].content, request_data[1].dtype, host)
              result == pairwise_sum([i \in DOMAIN arr.vals |-> arr.vals[i][1]])
          IN executor' = [executor EXCEPT ![t].state =
                            IF isclose(result, executor[t].expected_ans) THEN "done"
                            ELSE "raised"]
  /\ UNCHANGED << pc, args, host, promotion, stream, proxy_url, extra, np_random, data,
                  object_data, compressed_size, bucket, expected, error, request_data,
                  proxy_response, verdict >>

\* list(...) has every result and the pool is shut down: the next batch or
\* the next size, or the exception of a task.
JoinPool ==
  /\ pc \in {"no-proxy", "proxy"}
  /\ all_finished(executor)
  /\ IF \E t \in DOMAIN executor : executor[t].state = "raised"
     THEN pc' = "failed" /\ error' = "Exception"
     ELSE pc' = (IF pc = "no-proxy" THEN "no-proxy-done" ELSE "loop") /\ error' = error
  /\ UNCHANGED << args, host, promotion, executor, stream, proxy_url, extra, np_random, data,
                  object_data, compressed_size, bucket, expected, request_data,
                  proxy_response, verdict >>

NextBenchmark ==
  \/ WriteFile
  \/ CloseFile
  \/ SubmitNoProxy
  \/ SubmitProxy
  \/ StartTask
  \/ ReadObject
  \/ CompareSum
  \/ JoinPool

SpecBenchmark == InitBenchmark /\ [][NextBenchmark]_vars

\* The tasks that a process of the pool has taken and not finished.
Running == {t \in DOMAIN executor : executor[t].state \in {"running", "read"}}

\* C25: every size is written under the key test-data.dat; while main
\* writes the object, or is anywhere but waiting for a batch, every task of
\* the pool has finished; what a task has just read is the array of the
\* size in hand, which the bucket holds as long as the task runs, and the
\* sum the task was given is the sum of that array; no task raises.
C25_NoStaleRead ==
  /\ \A o \in Range(bucket) : o.key = "test-data.dat"
  /\ pc \notin {"no-proxy", "proxy"} => all_finished(executor)
  /\ pc = "writing" => Running = {}
  /\ \A t \in DOMAIN executor :
       /\ executor[t].state # "raised"
       /\ executor[t].state = "read" =>
            /\ executor[t].content = tobytes(data.vals, "float32", host, FALSE)
            /\ executor[t].expected_ans = pairwise_sum(data.vals)
       /\ executor[t].state \in {"running", "read"} =>
            \E o \in Range(bucket) : o.body = tobytes(data.vals, "float32", host, FALSE)
  /\ pc # "failed"

\* C25 witness: in the proxy batch of the second size, whose object has
\* replaced the first size's under the same key, one task is done, one has
\* read the object and one waits for a process.
C25_Witness ==
  /\ pc = "proxy"
  /\ data.shape = << 2, 2 >>
  /\ Len(bucket) = 1 /\ Len(bucket[1].body) = 16
  /\ \E t, u, v \in DOMAIN executor :
       /\ executor[t].state = "done"
       /\ executor[u].state = "read" /\ Len(executor[u].content) = 16
       /\ executor[v].state = "pending"

====
